---- MODULE Spec2Model ----
(***************************************************************************)
(* Conway's Game of Life with OpenMP: the benchmark program                *)
(* (game_of_life_text.c) and the visual program (game_of_life_visual.c).   *)
(*                                                                         *)
(* A grid is a function row -> (column -> char), rows and columns indexed  *)
(* from 0 as in the C arrays.  The operators take the dimension from the   *)
(* grid they are given, so the same definitions serve the exhaustive runs  *)
(* of the benchmark's simulate_* functions on a small torus (dimension N)  *)
(* and the runs of the visual main loop on a torus that holds the glider   *)
(* (dimension VisualN).  Both stand for GRID_SIZE.                         *)
(***************************************************************************)
EXTENDS Integers, Sequences, FiniteSets, TLC

VARIABLES
    variant,      \* which simulate_* function run_simulation was given
    nthreads,     \* size of the OpenMP team of the parallel-for regions
    grid,         \* char grid[GRID_SIZE][GRID_SIZE]
    next_grid,    \* char next_grid[GRID_SIZE][GRID_SIZE], the scratch grid
    iter,         \* loop variable of "for (iter = 0; iter < ITERATIONS; iter++)"
    pc,           \* position of the main thread: in simulate_*, or in the visual main loop
    i,            \* row loop variable of simulate_serial
    wrow,         \* schedule(static,1): next row of each team member
    dispatch,     \* schedule(guided,1): first row not yet handed out
    chunk,        \* schedule(guided,1): <<lo, hi>> rows held by each team member
    cp,           \* memcpy: number of rows of next_grid already copied to grid
    lock,         \* the threads inside the unnamed omp critical section, FREE if none
    grid0,        \* history: the grid as run_simulation initialised it
    scratch0,     \* history: the scratch grid as it was on entry
    cycles,       \* history: compute+publish cycles completed
    written,      \* history: the team members that wrote each scratch row in this compute phase
    rpc,          \* reader (print_grid loop): "idle", "reading" or "done"
    rrow,         \* reader: next row to read
    snap,         \* reader: the rows read so far
    overlap,      \* history: a row was copied into grid while the reader was reading
    generation,   \* visual main: int generation
    use_parallel, \* visual main: bool use_parallel
    quit,         \* visual main: bool quit
    updates,      \* history: calls of update_grid_serial and update_grid_parallel
    fn,           \* the function applied in isolation, or "none"
    arg,          \* its arguments (the grid argument is the variable grid)
    ret,          \* its result
    measurement,  \* benchmark main: loop variable i of the measurement loop
    call,         \* benchmark main: which of the five run_simulation calls is next
    times,        \* benchmark main: serial_time .. guided_no_critical_time
    runs,         \* history: the variants run so far, in order
    report,       \* benchmark main: what the report printed
    argv,         \* visual main: argv[1 .. argc - 1]
    argi,         \* visual main: loop variable i of the argument loop
    pattern_choice, \* visual main: int pattern_choice
    random_density, \* visual main: float random_density
    show_help,    \* visual main: bool show_help
    density_used, \* history: the densities initialize_random_grid was called with
    count,        \* count_live_cells: int count, the reduction variable
    private_count, \* count_live_cells: each team member's private copy of count
    todo,         \* count_live_cells: the rows each team member has still to scan
    combined,     \* count_live_cells: the members whose copy has been added to count
    serial_generations,   \* visual main: int serial_generations
    parallel_generations, \* visual main: int parallel_generations
    live_count,   \* visual main: int live_count
    frame,        \* render_grid: the rows drawn so far
    shown,        \* history: the frame last put on the screen by SDL_RenderPresent
    reset_at      \* history: the value of generation at the last R reset, 0 if none

textVars   == <<variant, nthreads, grid, next_grid, iter, pc, i, wrow,
                dispatch, chunk, cp, lock, grid0, scratch0, cycles, written>>
readerVars == <<rpc, rrow, snap, overlap>>
visualVars == <<generation, use_parallel, quit, updates>>
fnVars     == <<fn, arg, ret>>
benchVars  == <<measurement, call, times, runs, report>>
argVars    == <<argv, argi, pattern_choice, random_density, show_help, density_used>>
countVars  == <<count, private_count, todo, combined>>
mainVars   == <<benchVars, argVars, countVars>>
loopVars   == <<serial_generations, parallel_generations, live_count, frame, shown, reset_at>>
vars       == <<textVars, readerVars, visualVars, fnVars, mainVars, loopVars>>

----------------------------------------------------------------------------
(* Bounds of the exhaustive runs.                                          *)

N          == 3    \* grid dimension of the exhaustive runs
Iters      == 2    \* generations per simulate_* call in the exhaustive runs
MaxThreads == 2    \* largest OpenMP team
Window     == 5    \* initial ALIVE cells lie among the first Window cells, row-major
NarrowWindow == 3  \* the same, for the runs with a reader and the runs under fairness
FnDim      == 4    \* dimension of the sparse grids the pure functions are applied to
FnLive     == 2    \* most ALIVE (or most DEAD) cells of those grids
VisualN    == 13   \* grid dimension of the runs of the visual main loop
VisualIters == 6   \* generation limit of the visual main loop
Rounds     == 2    \* rounds of the measurement loop of the benchmark
BenchN     == 4    \* grid dimension of the runs of the benchmark
BenchCentre == 2   \* side of the centre square of the runs of the benchmark
MaxArgs    == 2    \* words on the command line of the visual driver
LoopIters  == 2    \* generation limit of the step-by-step runs of the visual main loop

(* Program constants.  In the runs N, VisualN and BenchN stand for         *)
(* GRID_SIZE, Iters, VisualIters and LoopIters for ITERATIONS, Rounds for  *)
(* MEASUREMENTS and, in the benchmark, BenchCentre for CENTER_SIZE.        *)

GRID_SIZE   == 100
ITERATIONS  == 100
CENTER_SIZE == 10
MEASUREMENTS == 5

ALIVE   == "*"
DEAD    == "."
GARBAGE == "?"     \* any other byte an uninitialised array may hold

FREE == {}

(* A float: a number in thousandths, an infinity or a NaN.                 *)
Float(kind, milli) == [kind |-> kind, milli |-> milli]

(* "float random_density = 0.3f".                                          *)
DefaultDensity == Float("num", 300)

----------------------------------------------------------------------------
(* Grids.                                                                  *)

Dim(g) == Cardinality(DOMAIN g)

Idx(n) == 0 .. (n - 1)

Cells(n) == Idx(n) \X Idx(n)

Filled(n, ch) == [r \in Idx(n) |-> [c \in Idx(n) |-> ch]]

GridOf(n, live) ==
    [r \in Idx(n) |-> [c \in Idx(n) |-> IF <<r, c>> \in live THEN ALIVE ELSE DEAD]]

AliveCells(g) == {rc \in Cells(Dim(g)) : g[rc[1]][rc[2]] = ALIVE}

initialize_grid_no_clear(g, size) ==
    LET first  == (Dim(g) - size) \div 2
        centre == first .. (first + size - 1)
    IN [r \in DOMAIN g |-> [c \in DOMAIN g |->
           IF r \in centre /\ c \in centre THEN ALIVE ELSE g[r][c]]]

(* initialize_grid: every cell set to DEAD, then the square of side        *)
(* CENTER_SIZE (size) from start_row = start_col =                         *)
(* (GRID_SIZE - CENTER_SIZE) / 2 set to ALIVE.                             *)
initialize_grid(g, size) ==
    LET cleared == [r \in DOMAIN g |-> [c \in DOMAIN g |-> DEAD]]
        first   == (Dim(g) - size) \div 2
        centre  == first .. (first + size - 1)
    IN [r \in DOMAIN g |-> [c \in DOMAIN g |->
           IF r \in centre /\ c \in centre THEN ALIVE ELSE cleared[r][c]]]

(* The C remainder operator: truncation toward zero.                       *)
CRem(a, b) == IF a >= 0 THEN a % b ELSE 0 - ((0 - a) % b)

(* The (i, j) pairs of the two loops of count_neighbors, the cell itself   *)
(* skipped.                                                                *)
NeighborOffsets == {<<di, dj>> \in (-1 .. 1) \X (-1 .. 1) : ~(di = 0 /\ dj = 0)}

neighbor_index_clamped(x, d, n) ==
    IF x + d < 0 THEN 0 ELSE IF x + d > n - 1 THEN n - 1 ELSE x + d

(* "(row + i + GRID_SIZE) % GRID_SIZE": the index of the neighbour d away  *)
(* from x, wrapped round the edge.                                         *)
neighbor_index(x, d, n) == CRem(x + d + n, n)

count_neighbors_with_self(g, row, col) ==
    LET n == Dim(g) IN
    Cardinality({o \in (-1 .. 1) \X (-1 .. 1) :
        g[neighbor_index(row, o[1], n)][neighbor_index(col, o[2], n)] = ALIVE})

count_neighbors(g, row, col) ==
    LET n == Dim(g) IN
    Cardinality({o \in NeighborOffsets :
        g[neighbor_index(row, o[1], n)][neighbor_index(col, o[2], n)] = ALIVE})

NextCellCrowdedAtThree(cell, neighbors) ==
    IF cell = ALIVE
    THEN IF neighbors < 2 \/ neighbors >= 3 THEN DEAD ELSE ALIVE
    ELSE IF neighbors = 3 THEN ALIVE ELSE DEAD

NextCellBirthFromTwo(cell, neighbors) ==
    IF cell = ALIVE
    THEN IF neighbors < 2 \/ neighbors > 3 THEN DEAD ELSE ALIVE
    ELSE IF neighbors >= 2 THEN ALIVE ELSE DEAD

NextCellBirthInverted(cell, neighbors) ==
    IF cell = ALIVE
    THEN IF neighbors < 2 \/ neighbors > 3 THEN DEAD ELSE ALIVE
    ELSE IF neighbors = 3 THEN DEAD ELSE ALIVE

(* "Apply the rules of the Game of Life": the nested if of every update    *)
(* function.                                                               *)
NextCell(cell, neighbors) ==
    IF cell = ALIVE
    THEN IF neighbors < 2 \/ neighbors > 3 THEN DEAD ELSE ALIVE
    ELSE IF neighbors = 3 THEN ALIVE ELSE DEAD

(* The inner j loop: the cells it writes into row r of the scratch grid,   *)
(* from the current grid.                                                  *)
ComputedRow(g, r) == [c \in DOMAIN g |-> NextCell(g[r][c], count_neighbors(g, r, c))]

ComputeRowShort(g, nx, r) ==
    [nx EXCEPT ![r] = [c \in DOMAIN g |->
        IF c < Dim(g) - 1 THEN ComputedRow(g, r)[c] ELSE nx[r][c]]]

(* One iteration of the row loop: row r of the scratch grid is written.    *)
ComputeRow(g, nx, r) == [nx EXCEPT ![r] = ComputedRow(g, r)]

(* The part of memcpy(grid, next_grid, ...) that moves row r.              *)
CopyRow(g, nx, r) == [g EXCEPT ![r] = nx[r]]

(* The record of a compute phase: for each row of the scratch grid, the    *)
(* team members that have run the loop body for that row, in order.  It is *)
(* empty when the phase starts.                                            *)
NoWrites(n) == [r \in Idx(n) |-> <<>>]

Wrote(w, r, t) == [w EXCEPT ![r] = Append(@, t)]

----------------------------------------------------------------------------
(* Loop conditions and the sequential update.                              *)

RowLoopCondShort(r, n) == r < n - 1

(* "i < GRID_SIZE" of the row loops.                                       *)
RowLoopCond(r, n) == r < n

IterLoopCondInclusive(it, limit) == it <= limit

(* "iter < ITERATIONS" of the generation loop of every simulate_*.         *)
IterLoopCond(it, limit) == it < limit

(* The row loop from row r on, run by one thread: each pass reads the grid *)
(* and writes its own row of the scratch grid, so the scratch grid after   *)
(* the loop is given row by row.                                           *)
ComputeFrom(g, nx, r) ==
    [k \in DOMAIN nx |->
        IF k >= r /\ RowLoopCond(k, Dim(g)) THEN ComputedRow(g, k) ELSE nx[k]]

CopyCondShort(r, n) == r < n - 1

(* The extent of the copy back: GRID_SIZE * GRID_SIZE bytes, all the rows. *)
CopyCond(r, n) == r < n

(* The copy of the scratch grid back into the grid, from row r on.         *)
CopyFrom(g, nx, r) ==
    [k \in DOMAIN g |->
        IF k >= r /\ CopyCond(k, Dim(g)) THEN nx[k] ELSE g[k]]

(* The array g as it lies in memory when a loop pass ends: the same value, *)
(* its cells worked out once and not again at every later read.            *)
InMemory(g) == IF g = g THEN g ELSE g

(* update_grid_serial as a function: <<grid, next_grid>> on return.        *)
update_grid_serial(g, nx) ==
    LET nx2 == ComputeFrom(g, nx, 0) IN <<CopyFrom(g, nx2, 0), nx2>>

RECURSIVE simulate_serial(_, _, _, _)
(* simulate_serial as a function of its two arguments: <<grid, next_grid>> *)
(* on return, the loop variable starting at it.                            *)
simulate_serial(g, nx, it, limit) ==
    IF IterLoopCond(it, limit)
    THEN LET u == update_grid_serial(g, nx)
         IN simulate_serial(InMemory(u[1]), InMemory(u[2]), it + 1, limit)
    ELSE <<g, nx>>

----------------------------------------------------------------------------
(* The five simulate_* functions of the benchmark program, one action per  *)
(* step of the calling thread and of each member of the team.              *)

Variants == {"serial", "static", "guided", "static_no_critical", "guided_no_critical"}

StaticVariants  == {"static", "static_no_critical"}
GuidedVariants  == {"guided", "guided_no_critical"}
GuardedVariants == {"static", "guided"}
NoLockVariants  == {"static_no_critical", "guided_no_critical"}
ParallelVariants == StaticVariants \cup GuidedVariants

Team == 0 .. (nthreads - 1)

MASTER == 0

(* schedule(static, 1): chunks of one row dealt round-robin; member t      *)
(* starts at row t and steps by the team size.                             *)
StaticFirstRowZero(t) == 0

StaticFirstRowSkipped(t) == t + 1

StaticFirstRow(t) == t

StaticNextRowByOne(r, nt) == r + 1

StaticNextRow(r, nt) == r + nt

GuidedChunkSizeFloor(remaining, nt) == remaining \div nt

(* schedule(guided, 1): the next chunk is the unassigned rows divided by   *)
(* the team size, rounded up, never less than the chunk size 1.            *)
GuidedChunkSize(remaining, nt) ==
    LET q == (remaining + nt - 1) \div nt IN IF q < 1 THEN 1 ELSE q

TeamFinishedMasterOnly(v, n, ws) ==
    IF v \in StaticVariants
    THEN ~RowLoopCond(ws.wrow[MASTER], n)
    ELSE ws.chunk[MASTER][1] >= ws.chunk[MASTER][2] /\ ~RowLoopCond(ws.dispatch, n)

(* The implicit barrier that ends a parallel-for over n rows: every member *)
(* of the team has run out of rows.  ws holds wrow, dispatch and chunk.    *)
TeamFinished(v, n, ws) ==
    IF v \in StaticVariants
    THEN \A t \in DOMAIN ws.wrow : ~RowLoopCond(ws.wrow[t], n)
    ELSE /\ ~RowLoopCond(ws.dispatch, n)
         /\ \A t \in DOMAIN ws.chunk : ws.chunk[t][1] >= ws.chunk[t][2]

TeamDone ==
    TeamFinished(variant, Dim(grid), [wrow |-> wrow, dispatch |-> dispatch, chunk |-> chunk])

(* The lock of the critical section once the copy has ended.               *)
LockAfterCopy(v, l) == IF v \in GuardedVariants THEN FREE ELSE l

(* Head of the generation loop: enter the body or return.                  *)
LoopHead ==
    /\ pc = "loop"
    /\ IF IterLoopCond(iter, Iters)
       THEN /\ pc' = "compute"
            /\ i' = 0
            /\ wrow' = [t \in Team |-> StaticFirstRow(t)]
            /\ dispatch' = 0
            /\ chunk' = [t \in Team |-> <<0, 0>>]
       ELSE /\ pc' = "done"
            /\ UNCHANGED <<i, wrow, dispatch, chunk>>
    /\ UNCHANGED <<variant, nthreads, grid, next_grid, iter, cp, lock, grid0, scratch0, cycles>>
    /\ UNCHANGED <<written, readerVars, visualVars, fnVars, loopVars, mainVars>>

(* simulate_serial: one pass of the row loop.                              *)
SerialRow ==
    /\ pc = "compute"
    /\ variant = "serial"
    /\ RowLoopCond(i, Dim(grid))
    /\ next_grid' = ComputeRow(grid, next_grid, i)
    /\ written' = Wrote(written, i, MASTER)
    /\ i' = i + 1
    /\ UNCHANGED <<variant, nthreads, grid, iter, pc, wrow, dispatch, chunk, cp, lock,
                   grid0, scratch0, cycles>>
    /\ UNCHANGED <<readerVars, visualVars, fnVars, loopVars, mainVars>>

(* simulate_serial: the row loop has ended, memcpy starts.                 *)
SerialLoopEnd ==
    /\ pc = "compute"
    /\ variant = "serial"
    /\ ~RowLoopCond(i, Dim(grid))
    /\ pc' = "copy"
    /\ cp' = 0
    /\ written' = NoWrites(Dim(grid))
    /\ UNCHANGED <<variant, nthreads, grid, next_grid, iter, i, wrow, dispatch, chunk,
                   lock, grid0, scratch0, cycles>>
    /\ UNCHANGED <<readerVars, visualVars, fnVars, loopVars, mainVars>>

StaticRowInPlace(t) ==
    /\ pc = "compute"
    /\ variant \in StaticVariants
    /\ RowLoopCond(wrow[t], Dim(grid))
    /\ grid' = ComputeRow(grid, grid, wrow[t])
    /\ written' = Wrote(written, wrow[t], t)
    /\ wrow' = [wrow EXCEPT ![t] = StaticNextRow(wrow[t], nthreads)]
    /\ UNCHANGED <<variant, nthreads, next_grid, iter, pc, i, dispatch, chunk, cp, lock,
                   grid0, scratch0, cycles>>
    /\ UNCHANGED <<readerVars, visualVars, fnVars, loopVars, mainVars>>

(* A member of a static team computes its next row.                        *)
StaticRow(t) ==
    /\ pc = "compute"
    /\ variant \in StaticVariants
    /\ RowLoopCond(wrow[t], Dim(grid))
    /\ next_grid' = ComputeRow(grid, next_grid, wrow[t])
    /\ written' = Wrote(written, wrow[t], t)
    /\ wrow' = [wrow EXCEPT ![t] = StaticNextRow(wrow[t], nthreads)]
    /\ UNCHANGED <<variant, nthreads, grid, iter, pc, i, dispatch, chunk, cp, lock,
                   grid0, scratch0, cycles>>
    /\ UNCHANGED <<readerVars, visualVars, fnVars, loopVars, mainVars>>

(* A member of a guided team with no rows left takes the next chunk.       *)
GuidedGrab(t) ==
    /\ pc = "compute"
    /\ variant \in GuidedVariants
    /\ chunk[t][1] >= chunk[t][2]
    /\ RowLoopCond(dispatch, Dim(grid))
    /\ LET size == GuidedChunkSize(Dim(grid) - dispatch, nthreads) IN
       /\ chunk' = [chunk EXCEPT ![t] = <<dispatch, dispatch + size>>]
       /\ dispatch' = dispatch + size
    /\ UNCHANGED <<variant, nthreads, grid, next_grid, iter, pc, i, wrow, cp, lock,
                   grid0, scratch0, cycles>>
    /\ UNCHANGED <<written, readerVars, visualVars, fnVars, loopVars, mainVars>>

GuidedRowFromScratch(t) ==
    /\ pc = "compute"
    /\ variant \in GuidedVariants
    /\ chunk[t][1] < chunk[t][2]
    /\ next_grid' = ComputeRow(next_grid, next_grid, chunk[t][1])
    /\ written' = Wrote(written, chunk[t][1], t)
    /\ chunk' = [chunk EXCEPT ![t] = <<chunk[t][1] + 1, chunk[t][2]>>]
    /\ UNCHANGED <<variant, nthreads, grid, iter, pc, i, wrow, dispatch, cp, lock,
                   grid0, scratch0, cycles>>
    /\ UNCHANGED <<readerVars, visualVars, fnVars, loopVars, mainVars>>

(* A member of a guided team computes the next row of its chunk.           *)
GuidedRow(t) ==
    /\ pc = "compute"
    /\ variant \in GuidedVariants
    /\ chunk[t][1] < chunk[t][2]
    /\ next_grid' = ComputeRow(grid, next_grid, chunk[t][1])
    /\ written' = Wrote(written, chunk[t][1], t)
    /\ chunk' = [chunk EXCEPT ![t] = <<chunk[t][1] + 1, chunk[t][2]>>]
    /\ UNCHANGED <<variant, nthreads, grid, iter, pc, i, wrow, dispatch, cp, lock,
                   grid0, scratch0, cycles>>
    /\ UNCHANGED <<readerVars, visualVars, fnVars, loopVars, mainVars>>

(* End of the parallel-for: past the barrier the team is gone, and with it *)
(* the loop variables of its members; the calling thread goes on to the    *)
(* copy, through "#pragma omp critical" in the guarded variants.           *)
Join ==
    /\ pc = "compute"
    /\ variant \in ParallelVariants
    /\ TeamDone
    /\ pc' = IF variant \in GuardedVariants THEN "critical" ELSE "copy"
    /\ cp' = 0
    /\ wrow' = [t \in Team |-> 0]
    /\ dispatch' = 0
    /\ chunk' = [t \in Team |-> <<0, 0>>]
    /\ written' = NoWrites(Dim(grid))
    /\ UNCHANGED <<variant, nthreads, grid, next_grid, iter, i, lock, grid0, scratch0,
                   cycles>>
    /\ UNCHANGED <<readerVars, visualVars, fnVars, loopVars, mainVars>>

EnterCriticalUnguarded ==
    /\ pc = "critical"
    /\ pc' = "copy"
    /\ UNCHANGED <<variant, nthreads, grid, next_grid, iter, i, wrow, dispatch, chunk,
                   cp, lock, grid0, scratch0, cycles>>
    /\ UNCHANGED <<written, readerVars, visualVars, fnVars, loopVars, mainVars>>

(* Entry of the critical section.                                          *)
EnterCritical ==
    /\ pc = "critical"
    /\ lock = FREE
    /\ lock' = {MASTER}
    /\ pc' = "copy"
    /\ UNCHANGED <<variant, nthreads, grid, next_grid, iter, i, wrow, dispatch, chunk,
                   cp, grid0, scratch0, cycles>>
    /\ UNCHANGED <<written, readerVars, visualVars, fnVars, loopVars, mainVars>>

(* memcpy moves the next row of the scratch grid into the grid.            *)
CopyStep ==
    /\ pc = "copy"
    /\ CopyCond(cp, Dim(grid))
    /\ grid' = CopyRow(grid, next_grid, cp)
    /\ cp' = cp + 1
    /\ overlap' = (overlap \/ rpc = "reading")   \* the copy goes on under the reader
    /\ UNCHANGED <<variant, nthreads, next_grid, iter, pc, i, wrow, dispatch, chunk,
                   lock, grid0, scratch0, cycles>>
    /\ UNCHANGED <<written, rpc, rrow, snap, visualVars, fnVars, loopVars, mainVars>>

(* memcpy has returned: leave the critical section if there is one, and    *)
(* iter++.                                                                 *)
EndCopy ==
    /\ pc = "copy"
    /\ ~CopyCond(cp, Dim(grid))
    /\ lock' = LockAfterCopy(variant, lock)
    /\ iter' = iter + 1
    /\ cycles' = cycles + 1
    /\ pc' = "loop"
    /\ UNCHANGED <<variant, nthreads, grid, next_grid, i, wrow, dispatch, chunk, cp,
                   grid0, scratch0>>
    /\ UNCHANGED <<written, readerVars, visualVars, fnVars, loopVars, mainVars>>

Worker(t) == t \in Team /\ (StaticRow(t) \/ GuidedGrab(t) \/ GuidedRow(t))

Caller == LoopHead \/ SerialRow \/ SerialLoopEnd \/ Join \/ EnterCritical \/ CopyStep \/ EndCopy

----------------------------------------------------------------------------
(* Entry of simulate_*(grid, next_grid) as run_simulation calls it: the    *)
(* scratch grid is an uninitialised stack array.  The grid argument ranges *)
(* over the grids of the small torus whose ALIVE cells lie in the window   *)
(* (run_simulation itself hands over the centred block of initialize_grid, *)
(* one grid of the full-size torus).                                       *)

WindowCells(n, w) == {rc \in Cells(n) : rc[1] * n + rc[2] < w}

InitialGrids == {GridOf(N, live) : live \in SUBSET WindowCells(N, Window)}

NarrowGrids == {GridOf(N, live) : live \in SUBSET WindowCells(N, NarrowWindow)}

Scratches == {Filled(N, GARBAGE), Filled(N, ALIVE)}

TeamSizes(v) == IF v = "serial" THEN {1} ELSE 1 .. MaxThreads

ReaderIdle ==
    /\ rpc = "idle"
    /\ rrow = 0
    /\ snap = <<>>
    /\ overlap = FALSE

VisualOff ==
    /\ generation = 0
    /\ use_parallel = FALSE
    /\ quit = FALSE
    /\ updates = 0

FnOff ==
    /\ fn = "none"
    /\ arg = <<>>
    /\ ret = <<>>

BenchOff ==
    /\ measurement = 0
    /\ call = 1
    /\ times = [v \in Variants |-> [num |-> 0, den |-> 1]]
    /\ runs = <<>>
    /\ report = [best |-> {}, scheduling |-> {}, critical |-> {}]

ArgsOff ==
    /\ argv = <<>>
    /\ argi = 1
    /\ pattern_choice = 0
    /\ random_density = DefaultDensity
    /\ show_help = FALSE
    /\ density_used = {}

CountOff ==
    /\ count = 0
    /\ private_count = [t \in Team |-> 0]
    /\ todo = [t \in Team |-> {}]
    /\ combined = {}

MainOff == BenchOff /\ ArgsOff /\ CountOff

(* No frame shown yet.                                                     *)
NoFrame == [gen |-> 0, grid |-> <<>>, live |-> 0, updates |-> 0]

LoopOff ==
    /\ serial_generations = 0
    /\ parallel_generations = 0
    /\ live_count = 0
    /\ frame = <<>>
    /\ shown = NoFrame
    /\ reset_at = 0

Init ==
    /\ variant \in Variants
    /\ nthreads \in TeamSizes(variant)
    /\ grid \in InitialGrids
    /\ next_grid \in Scratches
    /\ iter = 0
    /\ pc = "loop"
    /\ i = 0
    /\ wrow = [t \in Team |-> 0]
    /\ dispatch = 0
    /\ chunk = [t \in Team |-> <<0, 0>>]
    /\ cp = 0
    /\ lock = FREE
    /\ grid0 = grid
    /\ scratch0 = next_grid
    /\ cycles = 0
    /\ written = NoWrites(Dim(grid))
    /\ ReaderIdle
    /\ VisualOff
    /\ FnOff
    /\ LoopOff
    /\ MainOff

Next ==
    \/ Caller
    \/ \E t \in Team : Worker(t)

Spec == Init /\ [][Next]_vars

(* The threads of the team and the calling thread are scheduled fairly.    *)
Fairness ==
    /\ WF_vars(Caller)
    /\ \A t \in 0 .. (MaxThreads - 1) : WF_vars(Worker(t))

(* The runs under fairness start from the grids of the narrow window.      *)
InitFair ==
    /\ Init
    /\ grid \in NarrowGrids

FairSpec == InitFair /\ [][Next]_vars /\ Fairness

----------------------------------------------------------------------------
(* A parallel simulate_* call as a function of the order in which the      *)
(* members of the team take their steps.  A schedule is a sequence of      *)
(* member ids; an entry whose member has nothing left to do is passed      *)
(* over, and once the schedule is used up the members finish lowest id     *)
(* first.                                                                  *)

(* The row a member writes: in a compute loop row r of the scratch grid    *)
(* out from the grid g, in a copy loop row r of the grid out from the      *)
(* scratch grid g.                                                         *)
RowWrite(work, g, out, r) ==
    IF work = "copy" THEN CopyRow(out, g, r) ELSE ComputeRow(g, out, r)

TeamStart(work, out, nt) ==
    [work     |-> work,
     nx       |-> out,
     wrow     |-> [t \in 0 .. (nt - 1) |-> StaticFirstRow(t)],
     dispatch |-> 0,
     chunk    |-> [t \in 0 .. (nt - 1) |-> <<0, 0>>]]

(* Whether member t has a step to take: a row to compute or a chunk to     *)
(* fetch.                                                                  *)
MemberCanStep(v, g, ts, t) ==
    IF v \in StaticVariants
    THEN RowLoopCond(ts.wrow[t], Dim(g))
    ELSE ts.chunk[t][1] < ts.chunk[t][2] \/ RowLoopCond(ts.dispatch, Dim(g))

(* The step member t takes: StaticRow, GuidedRow or GuidedGrab.            *)
MemberStep(v, nt, g, ts, t) ==
    IF v \in StaticVariants
    THEN [ts EXCEPT !.nx = RowWrite(ts.work, g, ts.nx, ts.wrow[t]),
                    !.wrow[t] = StaticNextRow(ts.wrow[t], nt)]
    ELSE IF ts.chunk[t][1] < ts.chunk[t][2]
         THEN [ts EXCEPT !.nx = RowWrite(ts.work, g, ts.nx, ts.chunk[t][1]),
                         !.chunk[t] = <<ts.chunk[t][1] + 1, ts.chunk[t][2]>>]
         ELSE LET size == GuidedChunkSize(Dim(g) - ts.dispatch, nt) IN
              [ts EXCEPT !.chunk[t] = <<ts.dispatch, ts.dispatch + size>>,
                         !.dispatch = ts.dispatch + size]

(* Position k of a run of the team: while the schedule lasts its k-th      *)
(* entry names the member that steps, if that member has a step to take;   *)
(* past its end the lowest member that has a step takes it.                *)
StepAt(v, nt, g, ts, sched, k) ==
    LET able == {t \in 0 .. (nt - 1) : MemberCanStep(v, g, ts, t)} IN
    IF k <= Len(sched)
    THEN IF sched[k] \in able THEN MemberStep(v, nt, g, ts, sched[k]) ELSE ts
    ELSE IF able = {}
         THEN ts
         ELSE MemberStep(v, nt, g, ts, CHOOSE t \in able : \A u \in able : t <= u)

RECURSIVE RunSteps(_, _, _, _, _, _, _)
(* Positions from .. to of a run, the first half and then, unless the team *)
(* has finished, the second.                                               *)
RunSteps(v, nt, g, ts, sched, from, to) ==
    IF from >= to
    THEN StepAt(v, nt, g, ts, sched, from)
    ELSE LET mid   == (from + to) \div 2
             first == RunSteps(v, nt, g, ts, sched, from, mid)
         IN IF TeamFinished(v, Dim(g), first)
            THEN first
            ELSE RunSteps(v, nt, g, first, sched, mid + 1, to)

(* The parallel-for under a schedule: the array it writes, at the barrier. *)
(* A team over n rows takes at most 2n steps, n rows and n chunks.         *)
RunTeam(v, nt, g, ts, sched) ==
    RunSteps(v, nt, g, ts, sched, 1, Len(sched) + 2 * Dim(g)).nx

(* One pass of the generation loop under a schedule: <<grid, next_grid>>   *)
(* after the copy, which the calling thread makes alone past the barrier.  *)
ParallelGeneration(v, nt, g, nx, sched) ==
    LET nx2 == RunTeam(v, nt, g, TeamStart("compute", nx, nt), sched) IN <<CopyFrom(g, nx2, 0), nx2>>

(* Schedules long enough for every order of the steps of one parallel-for  *)
(* over n rows: at most n rows computed and n chunks fetched.              *)
Schedules(n, nt) == [1 .. (2 * n) -> 0 .. (nt - 1)]

RECURSIVE ParallelOutcomes(_, _, _, _, _)
(* The <<grid, next_grid>> pairs a parallel simulate_* call can return     *)
(* with, over all schedules of all its generations.                        *)
ParallelOutcomes(v, nt, pairs, it, limit) ==
    IF IterLoopCond(it, limit)
    THEN ParallelOutcomes(v, nt,
             UNION {{ParallelGeneration(v, nt, p[1], p[2], sched) :
                         sched \in Schedules(Dim(p[1]), nt)} : p \in pairs},
             it + 1, limit)
    ELSE pairs

----------------------------------------------------------------------------
(* A reader of the grid running beside a simulate_* call: the loop of      *)
(* print_grid, which reads the grid row by row and takes no lock.          *)

(* memcpy has moved some rows and not yet all.                             *)
CopyInFlight == pc = "copy" /\ cp > 0 /\ CopyCond(cp, Dim(grid))

(* One pass of the outer loop of print_grid: row rrow is read.             *)
ReaderRow ==
    /\ rpc \in {"idle", "reading"}
    /\ RowLoopCond(rrow, Dim(grid))
    /\ snap' = Append(snap, grid[rrow])
    /\ rrow' = rrow + 1
    /\ rpc' = IF RowLoopCond(rrow + 1, Dim(grid)) THEN "reading" ELSE "done"
    /\ overlap' = (overlap \/ CopyInFlight)      \* the reader reads under the copy
    /\ UNCHANGED <<textVars, visualVars, fnVars, loopVars, mainVars>>

NextReader == Next \/ ReaderRow

(* The runs with a reader start from the grids of the narrow window, the   *)
(* scratch grid holding no cell value.                                     *)
InitReader ==
    /\ Init
    /\ grid \in NarrowGrids
    /\ next_grid = Filled(N, GARBAGE)

SpecReader == InitReader /\ [][NextReader]_vars

----------------------------------------------------------------------------
(* The pure functions applied in isolation to bounded inputs.              *)

AllGrids(n) == {GridOf(n, live) : live \in SUBSET Cells(n)}

SparseGrids(n, k) ==
    LET few == {s \in SUBSET Cells(n) : Cardinality(s) <= k} IN
    {GridOf(n, live) : live \in few} \cup {GridOf(n, Cells(n) \ dead) : dead \in few}

FnGrids == AllGrids(N) \cup SparseGrids(FnDim, FnLive)

TextOff ==
    /\ variant = "serial"
    /\ nthreads = 1
    /\ iter = 0
    /\ pc = "off"
    /\ i = 0
    /\ wrow = [t \in Team |-> 0]
    /\ dispatch = 0
    /\ chunk = [t \in Team |-> <<0, 0>>]
    /\ cp = 0
    /\ lock = FREE
    /\ grid0 = grid
    /\ scratch0 = next_grid
    /\ cycles = 0
    /\ written = NoWrites(Dim(grid))

InitFn ==
    /\ grid \in FnGrids
    /\ next_grid = Filled(Dim(grid), GARBAGE)
    /\ TextOff
    /\ ReaderIdle
    /\ VisualOff
    /\ FnOff
    /\ LoopOff
    /\ MainOff

CallCountNeighbors ==
    /\ fn = "none"
    /\ \E row \in DOMAIN grid, col \in DOMAIN grid :
        /\ arg' = <<row, col>>
        /\ ret' = count_neighbors(grid, row, col)
    /\ fn' = "count_neighbors"
    /\ UNCHANGED <<textVars, readerVars, visualVars, mainVars, loopVars>>

CallNextCell ==
    /\ fn = "none"
    /\ \E cell \in {ALIVE, DEAD}, neighbors \in 0 .. 8 :
        /\ arg' = <<cell, neighbors>>
        /\ ret' = NextCell(cell, neighbors)
    /\ fn' = "NextCell"
    /\ UNCHANGED <<textVars, readerVars, visualVars, mainVars, loopVars>>

CallComputeRow ==
    /\ fn = "none"
    /\ \E r \in DOMAIN grid :
        /\ arg' = r
        /\ ret' = ComputeRow(grid, next_grid, r)
    /\ fn' = "ComputeRow"
    /\ UNCHANGED <<textVars, readerVars, visualVars, mainVars, loopVars>>

NextFn == CallCountNeighbors \/ CallNextCell \/ CallComputeRow

SpecFn == InitFn /\ [][NextFn]_vars

----------------------------------------------------------------------------
(* The visual program: main of game_of_life_visual.c, on a torus of        *)
(* dimension VisualN, the smallest that holds the glider where             *)
(* initialize_glider_grid places it.                                       *)

start_row == 10

start_col == 10

(* The five cells of "Glider pattern".                                     *)
GliderCells ==
    {<<start_row, start_col + 1>>,
     <<start_row + 1, start_col + 2>>,
     <<start_row + 2, start_col>>,
     <<start_row + 2, start_col + 1>>,
     <<start_row + 2, start_col + 2>>}

(* initialize_glider_grid: the grid cleared, the glider, and the cells the *)
(* 100 draws of rand() hit (drawn is their set: one cell at least, and     *)
(* they may all fall on cells of the glider).                              *)
initialize_glider_grid(drawn) == GridOf(VisualN, GliderCells \cup drawn)

GliderDraws == {{<<start_row + 1, start_col + 2>>}, {<<start_row + 1, start_col + 1>>}}

(* What the stack array grid of main may hold before it is initialised.    *)
VisualStack == {Filled(VisualN, GARBAGE), Filled(VisualN, ALIVE)}

(* initialize_grid of the visual program, the same text as that of the     *)
(* benchmark: the centre CENTER_SIZE square ALIVE, every other cell DEAD.  *)
initialize_grid_visual(prior) == initialize_grid(prior, CENTER_SIZE)

(* The inner j loop of count_live_cells: the ALIVE cells of row r.         *)
count_row(g, r) == Cardinality({c \in DOMAIN g : g[r][c] = ALIVE})

RECURSIVE count_rows(_, _)
(* The rows from r on, added up.                                           *)
count_rows(g, r) ==
    IF RowLoopCond(r, Dim(g)) THEN count_row(g, r) + count_rows(g, r + 1) ELSE 0

(* count_live_cells as a function: the value returned.                     *)
count_live_cells(g) == count_rows(g, 0)

(* The comparisons of two floats: false when either is a NaN.              *)
FloatLess(a, b) == a.kind = "num" /\ b.kind = "num" /\ a.milli < b.milli

FloatLessEq(a, b) == a.kind = "num" /\ b.kind = "num" /\ a.milli <= b.milli

(* initialize_random_grid: the cell is ALIVE when                          *)
(* "(float)rand() / RAND_MAX < density"; draws holds the quotient drawn    *)
(* for each cell.                                                          *)
initialize_random_grid(draws, density) ==
    [r \in DOMAIN draws |-> [c \in DOMAIN draws |->
        IF FloatLess(draws[r][c], density) THEN ALIVE ELSE DEAD]]

(* Three of the ways rand() can fall: the quotient 0 on the cells of a     *)
(* block, of a row of three across the edge, or of no cell, and 0.999 on   *)
(* every other cell.                                                       *)
RandomDraws ==
    {[r \in Idx(VisualN) |-> [c \in Idx(VisualN) |->
         IF <<r, c>> \in low THEN Float("num", 0) ELSE Float("num", 999)]] :
     low \in {{<<5, 5>>, <<5, 6>>, <<6, 5>>, <<6, 6>>},
              {<<0, VisualN - 1>>, <<0, 0>>, <<0, 1>>},
              {}}}

(* The grids initialize_random_grid leaves under the density 0.3.          *)
RandomGrids == {initialize_random_grid(draws, DefaultDensity) : draws \in RandomDraws}

(* The switch on pattern_choice.                                           *)
PatternGrids(choice) ==
    CASE choice = 1 -> RandomGrids
      [] choice = 2 -> {initialize_glider_grid(drawn) : drawn \in GliderDraws}
      [] OTHER      -> {initialize_grid_visual(prior) : prior \in VisualStack}

(* update_grid_parallel: two guided parallel-for loops, the rows computed  *)
(* into the scratch grid and then copied back, each under its schedule.    *)
update_grid_parallel(g, nx, nt, sched1, sched2) ==
    LET nx2 == RunTeam("guided", nt, g, TeamStart("compute", nx, nt), sched1)
        g2  == RunTeam("guided", nt, nx2, TeamStart("copy", g, nt), sched2)
    IN <<g2, nx2>>

(* Orders of the team's steps tried in the main loop: lowest member first  *)
(* throughout, the members taking turns from the last one down, and the    *)
(* last member first throughout.                                           *)
TakingTurns(nt) == [k \in 1 .. (2 * VisualN) |-> (nt - 1) - (k % nt)]

LastFirst(nt) == [k \in 1 .. (2 * VisualN) |-> nt - 1]

SchedulePairs(nt) ==
    {<<<<>>, TakingTurns(nt)>>, <<TakingTurns(nt), <<>>>>, <<LastFirst(nt), LastFirst(nt)>>}

(* What SDL_PollEvent can deliver in one pass of the main loop.  "quit" is *)
(* SDL_QUIT or the Escape key, "p" and "r" the keys; Space and S change    *)
(* nothing of the state kept here.                                         *)
EventQueues == {<<>>, <<"quit">>, <<"p">>, <<"r">>, <<"p", "quit">>}

(* The body of the event loop for one event; rg is the grid                *)
(* initialize_random_grid leaves.                                          *)
HandleEvent(e, st, rg) ==
    CASE e = "quit" -> [st EXCEPT !.quit = TRUE]
      [] e = "p"    -> [st EXCEPT !.use_parallel = ~st.use_parallel]
      [] e = "r"    -> [st EXCEPT !.grid = rg, !.reset = TRUE]
      [] OTHER      -> st

RECURSIVE HandleEvents(_, _, _)
(* "while (SDL_PollEvent(&e) != 0)".                                       *)
HandleEvents(q, st, rg) ==
    IF q = <<>> THEN st ELSE HandleEvents(Tail(q), HandleEvent(Head(q), st, rg), rg)

MainLoopCondStrict(q, gen, limit) == ~q /\ gen < limit

MainLoopCondOneMore(q, gen, limit) == ~q /\ gen <= limit + 1

(* "while (!quit && generation <= ITERATIONS)".                            *)
MainLoopCond(q, gen, limit) == ~q /\ gen <= limit

(* One pass of the main loop: the events, the update of the grid by the    *)
(* function use_parallel selects, generation++.  (Counting and drawing     *)
(* read the grid between the two and change nothing.)                      *)
MainLoopPass ==
    /\ pc = "main_loop"
    /\ MainLoopCond(quit, generation, VisualIters)
    /\ \E q \in EventQueues :
       \E rg \in (IF \E k \in DOMAIN q : q[k] = "r" THEN RandomGrids ELSE {grid}) :
          LET st == HandleEvents(q, [quit |-> quit, use_parallel |-> use_parallel,
                                     grid |-> grid, reset |-> FALSE], rg)
          IN \E sp \in (IF st.use_parallel THEN SchedulePairs(nthreads)
                                           ELSE {<<<<>>, <<>>>>}) :
                LET u == IF st.use_parallel
                         THEN update_grid_parallel(st.grid, next_grid, nthreads, sp[1], sp[2])
                         ELSE update_grid_serial(st.grid, next_grid)
                IN /\ grid' = u[1]
                   /\ next_grid' = u[2]
                   /\ quit' = st.quit
                   /\ use_parallel' = st.use_parallel
                   /\ grid0' = IF st.reset THEN st.grid ELSE grid0
                   /\ cycles' = IF st.reset THEN 1 ELSE cycles + 1
    /\ generation' = generation + 1
    /\ updates' = updates + 1
    /\ UNCHANGED <<variant, nthreads, iter, pc, i, wrow, dispatch, chunk, cp, lock,
                   scratch0>>
    /\ UNCHANGED <<written, readerVars, fnVars, loopVars, mainVars>>

(* The loop condition fails: main goes on to the final statistics.         *)
MainLoopExit ==
    /\ pc = "main_loop"
    /\ ~MainLoopCond(quit, generation, VisualIters)
    /\ pc' = "main_exit"
    /\ UNCHANGED <<variant, nthreads, grid, next_grid, iter, i, wrow, dispatch, chunk,
                   cp, lock, grid0, scratch0, cycles>>
    /\ UNCHANGED <<written, readerVars, visualVars, fnVars, loopVars, mainVars>>

(* main up to the loop: the command line, the two stack arrays, the        *)
(* switch on pattern_choice, generation = 1.  grid0 and cycles follow the  *)
(* grid as last initialised and the updates made since.                    *)
InitVisual ==
    /\ variant = "serial"
    /\ nthreads = MaxThreads
    /\ \E choice \in {0, 1, 2} : grid \in PatternGrids(choice)
    /\ next_grid \in {Filled(VisualN, GARBAGE), Filled(VisualN, ALIVE)}
    /\ iter = 0
    /\ pc = "main_loop"
    /\ i = 0
    /\ wrow = [t \in Team |-> 0]
    /\ dispatch = 0
    /\ chunk = [t \in Team |-> <<0, 0>>]
    /\ cp = 0
    /\ lock = FREE
    /\ grid0 = grid
    /\ scratch0 = next_grid
    /\ cycles = 0
    /\ written = NoWrites(Dim(grid))
    /\ ReaderIdle
    /\ generation = 1
    /\ use_parallel \in BOOLEAN
    /\ quit = FALSE
    /\ updates = 0
    /\ FnOff
    /\ LoopOff
    /\ MainOff

NextVisual == MainLoopPass \/ MainLoopExit

SpecVisual == InitVisual /\ [][NextVisual]_vars

----------------------------------------------------------------------------
(* The benchmark program: main of game_of_life_text.c.  Each               *)
(* run_simulation call is one step; its two stack arrays are the variables *)
(* grid and next_grid, which hold between two calls what the call before   *)
(* left in them.  Durations are whole ticks of the clock and the time      *)
(* variables exact fractions of a tick.                                    *)

Ratio(n, d) == [num |-> n, den |-> d]

(* The double operations main applies to the time variables.               *)
Plus(a, k) == Ratio(a.num + k * a.den, a.den)

DividedBy(a, k) == Ratio(a.num, a.den * k)

Less(a, b) == a.num * b.den < b.num * a.den

Minus(a, b) == Ratio(a.num * b.den - b.num * a.den, a.den * b.den)

Over(a, b) == Ratio(a.num * b.den, a.den * b.num)

TimesInt(a, k) == Ratio(a.num * k, a.den)

RECURSIVE simulate_parallel(_, _, _, _, _, _)
(* The generation loop of a parallel simulate_* function, its team taking  *)
(* the steps of each parallel-for lowest member first.                     *)
simulate_parallel(v, nt, g, nx, it, limit) ==
    IF IterLoopCond(it, limit)
    THEN LET p == ParallelGeneration(v, nt, g, nx, <<>>)
         IN simulate_parallel(v, nt, InMemory(p[1]), InMemory(p[2]), it + 1, limit)
    ELSE <<g, nx>>

(* The call through the function pointer simulate_func.                    *)
simulate_func(v, nt, g, nx) ==
    IF v = "serial"
    THEN simulate_serial(g, nx, 0, Iters)
    ELSE simulate_parallel(v, nt, g, nx, 0, Iters)

CallOrderGuidedFirst ==
    <<"serial", "guided", "static", "static_no_critical", "guided_no_critical">>

(* The five calls of the body of the measurement loop, top to bottom.      *)
CallOrder ==
    <<"serial", "static", "guided", "static_no_critical", "guided_no_critical">>

(* "i < MEASUREMENTS".                                                     *)
MeasureLoopCond(m, limit) == m < limit

(* What "end_time - start_time" can come to, in ticks.                     *)
Durations == {1, 2}

(* "x_time += run_simulation(simulate_x, ...)": the call initialises its   *)
(* grid, runs the variant on it and returns the time taken, which main     *)
(* adds to the variant's time variable.  After the fifth call the loop     *)
(* variable is incremented.                                                *)
RunSimulation ==
    /\ pc = "measure"
    /\ MeasureLoopCond(measurement, Rounds)
    /\ \E started \in {initialize_grid(grid, BenchCentre)} :
       \E out \in {simulate_func(CallOrder[call], nthreads, started, next_grid)} :
          /\ variant' = CallOrder[call]
          /\ grid0' = started
          /\ scratch0' = next_grid
          /\ grid' = out[1]
          /\ next_grid' = out[2]
          /\ runs' = Append(runs, CallOrder[call])
          /\ \E time_taken \in Durations :
                 times' = [times EXCEPT ![CallOrder[call]] = Plus(@, time_taken)]
    /\ call' = IF call = Len(CallOrder) THEN 1 ELSE call + 1
    /\ measurement' = IF call = Len(CallOrder) THEN measurement + 1 ELSE measurement
    /\ UNCHANGED <<nthreads, iter, pc, i, wrow, dispatch, chunk, cp, lock, cycles, report>>
    /\ UNCHANGED <<written, readerVars, visualVars, fnVars, loopVars, argVars, countVars>>

(* The loop is left and the five time variables are divided by             *)
(* MEASUREMENTS.                                                           *)
Averages ==
    /\ pc = "measure"
    /\ ~MeasureLoopCond(measurement, Rounds)
    /\ times' = [v \in Variants |-> DividedBy(times[v], Rounds)]
    /\ pc' = "report_best"
    /\ UNCHANGED <<variant, nthreads, grid, next_grid, iter, i, wrow, dispatch, chunk,
                   cp, lock, grid0, scratch0, cycles, measurement, call, runs, report>>
    /\ UNCHANGED <<written, readerVars, visualVars, fnVars, loopVars, argVars, countVars>>

(* The label the report prints for each variant.                           *)
Label(v) ==
    CASE v = "serial"             -> "Serial"
      [] v = "static"             -> "Parallel (Static)"
      [] v = "guided"             -> "Parallel (Guided)"
      [] v = "static_no_critical" -> "Parallel (Static No Critical)"
      [] v = "guided_no_critical" -> "Parallel (Guided No Critical)"

BestUpdateOnTie(best, t, v) ==
    IF ~Less(best.time, t[v]) THEN [time |-> t[v], version |-> Label(v)] ELSE best

(* "if (x_time < best_time) { best_time = x_time; best_version = ...; }".  *)
BestUpdate(best, t, v) ==
    IF Less(t[v], best.time) THEN [time |-> t[v], version |-> Label(v)] ELSE best

(* "Find the best performing version": best_time and best_version after    *)
(* the four ifs.                                                           *)
BestVersion(t) ==
    LET b0 == [time |-> t["serial"], version |-> Label("serial")]
        b1 == BestUpdate(b0, t, "static")
        b2 == BestUpdate(b1, t, "guided")
        b3 == BestUpdate(b2, t, "static_no_critical")
    IN BestUpdate(b3, t, "guided_no_critical")

ReportBest ==
    /\ pc = "report_best"
    /\ report' = [report EXCEPT !.best = {BestVersion(times)}]
    /\ pc' = "report_scheduling"
    /\ UNCHANGED <<variant, nthreads, grid, next_grid, iter, i, wrow, dispatch, chunk,
                   cp, lock, grid0, scratch0, cycles, measurement, call, times, runs>>
    /\ UNCHANGED <<written, readerVars, visualVars, fnVars, loopVars, argVars, countVars>>

SchedulingComparisonOverFaster(st, gt) ==
    IF Less(st, gt)
    THEN [line |-> "Static scheduling performed better than guided scheduling by",
          percent |-> TimesInt(Over(Minus(gt, st), st), 100)]
    ELSE IF Less(gt, st)
         THEN [line |-> "Guided scheduling performed better than static scheduling by",
               percent |-> TimesInt(Over(Minus(st, gt), gt), 100)]
         ELSE [line |-> "Both scheduling methods performed equally",
               percent |-> Ratio(0, 1)]

(* "Compare scheduling methods": the line printed and the value of its     *)
(* %.2f argument; the third line has no argument, shown here as 0.         *)
SchedulingComparison(st, gt) ==
    IF Less(st, gt)
    THEN [line |-> "Static scheduling performed better than guided scheduling by",
          percent |-> TimesInt(Over(Minus(gt, st), gt), 100)]
    ELSE IF Less(gt, st)
         THEN [line |-> "Guided scheduling performed better than static scheduling by",
               percent |-> TimesInt(Over(Minus(st, gt), st), 100)]
         ELSE [line |-> "Both scheduling methods performed equally",
               percent |-> Ratio(0, 1)]

ReportScheduling ==
    /\ pc = "report_scheduling"
    /\ report' = [report EXCEPT
                     !.scheduling = {SchedulingComparison(times["static"], times["guided"])}]
    /\ pc' = "report_critical"
    /\ UNCHANGED <<variant, nthreads, grid, next_grid, iter, i, wrow, dispatch, chunk,
                   cp, lock, grid0, scratch0, cycles, measurement, call, times, runs>>
    /\ UNCHANGED <<written, readerVars, visualVars, fnVars, loopVars, argVars, countVars>>

CriticalImpactOnTie(with, without) ==
    IF ~Less(with, without)
    THEN [line |-> "improved performance by",
          percent |-> TimesInt(Over(Minus(with, without), with), 100)]
    ELSE [line |-> "degraded performance by",
          percent |-> TimesInt(Over(Minus(without, with), with), 100)]

(* "Critical section impact" for one scheduling kind: the words printed    *)
(* and the value of the %.2f argument.                                     *)
CriticalImpact(with, without) ==
    IF Less(without, with)
    THEN [line |-> "improved performance by",
          percent |-> TimesInt(Over(Minus(with, without), with), 100)]
    ELSE [line |-> "degraded performance by",
          percent |-> TimesInt(Over(Minus(without, with), with), 100)]

ReportCritical ==
    /\ pc = "report_critical"
    /\ report' = [report EXCEPT
                     !.critical = {[static |-> CriticalImpact(times["static"],
                                                              times["static_no_critical"]),
                                    guided |-> CriticalImpact(times["guided"],
                                                              times["guided_no_critical"])]}]
    /\ pc' = "exit"
    /\ UNCHANGED <<variant, nthreads, grid, next_grid, iter, i, wrow, dispatch, chunk,
                   cp, lock, grid0, scratch0, cycles, measurement, call, times, runs>>
    /\ UNCHANGED <<written, readerVars, visualVars, fnVars, loopVars, argVars, countVars>>

(* What the stack region of run_simulation's two arrays may hold before    *)
(* the first call.                                                         *)
StackContents == {Filled(BenchN, GARBAGE), Filled(BenchN, ALIVE)}

(* main on entry: the five time variables 0, the team size as the OpenMP   *)
(* runtime fixes it for the process.                                       *)
InitBench ==
    /\ variant = "serial"
    /\ nthreads \in {1, MaxThreads}
    /\ grid \in StackContents
    /\ next_grid = Filled(BenchN, GARBAGE)
    /\ iter = 0
    /\ pc = "measure"
    /\ i = 0
    /\ wrow = [t \in Team |-> 0]
    /\ dispatch = 0
    /\ chunk = [t \in Team |-> <<0, 0>>]
    /\ cp = 0
    /\ lock = FREE
    /\ grid0 = grid
    /\ scratch0 = next_grid
    /\ cycles = 0
    /\ written = NoWrites(Dim(grid))
    /\ ReaderIdle
    /\ VisualOff
    /\ FnOff
    /\ LoopOff
    /\ MainOff

NextBench == RunSimulation \/ Averages \/ ReportBest \/ ReportScheduling \/ ReportCritical

SpecBench == InitBench /\ [][NextBench]_vars

----------------------------------------------------------------------------
(* The visual driver before its main loop: main of game_of_life_visual.c   *)
(* from the argument loop to the switch on pattern_choice, and the R key   *)
(* of the main loop, which calls initialize_random_grid again.             *)

(* Command line words; the long option names and "-n" are left out.        *)
Tokens == {"-p", "-r", "-g", "-h", "-0.5", "0", "0.5", "1", "nan"}

(* "argv[i + 1][0] != '-'" fails.                                          *)
BeginsWithDash(tok) == tok \in {"-p", "-r", "-g", "-h", "-0.5"}

(* atof, and the narrowing of its double to float: 0 when the word does    *)
(* not begin with a number, a NaN for "nan".                               *)
atof(tok) ==
    CASE tok = "0.5"  -> Float("num", 500)
      [] tok = "1"    -> Float("num", 1000)
      [] tok = "-0.5" -> Float("num", -500)
      [] tok = "nan"  -> Float("nan", 0)
      [] OTHER        -> Float("num", 0)

(* "random_density <= 0 || random_density >= 1".                           *)
DensityRejected(d) == FloatLessEq(d, Float("num", 0)) \/ FloatLessEq(Float("num", 1000), d)

(* "i < argc", argv[1 .. argc - 1] being the words.                        *)
ArgLoopCond(k, words) == k <= Len(words)

(* One pass of the argument loop.                                          *)
ParseArg ==
    /\ pc = "args"
    /\ ArgLoopCond(argi, argv)
    /\ LET word  == argv[argi]
           takes == /\ word = "-r"
                    /\ ArgLoopCond(argi + 1, argv)
                    /\ ~BeginsWithDash(argv[argi + 1])
       IN /\ use_parallel' = IF word = "-p" THEN TRUE ELSE use_parallel
          /\ pattern_choice' = IF word = "-r" THEN 1
                               ELSE IF word = "-g" THEN 2 ELSE pattern_choice
          /\ random_density' =
                 IF takes
                 THEN IF DensityRejected(atof(argv[argi + 1]))
                      THEN DefaultDensity
                      ELSE atof(argv[argi + 1])
                 ELSE random_density
          /\ show_help' = IF word = "-h" THEN TRUE ELSE show_help
          /\ argi' = IF takes THEN argi + 2 ELSE argi + 1
    /\ UNCHANGED <<textVars, readerVars, fnVars, loopVars, benchVars, countVars>>
    /\ UNCHANGED <<generation, quit, updates, argv, density_used>>

(* The argument loop is left: "if (show_help) { ...; return 0; }".         *)
ArgsEnd ==
    /\ pc = "args"
    /\ ~ArgLoopCond(argi, argv)
    /\ pc' = IF show_help THEN "help_exit" ELSE "startup"
    /\ UNCHANGED <<variant, nthreads, grid, next_grid, iter, i, wrow, dispatch, chunk,
                   cp, lock, grid0, scratch0, cycles>>
    /\ UNCHANGED <<written, readerVars, visualVars, fnVars, loopVars, mainVars>>

(* The grids the switch on the pattern can leave in the array prior.       *)
StartGrids(choice, prior, density) ==
    CASE choice = 1 -> {initialize_random_grid(draws, density) : draws \in RandomDraws}
      [] choice = 2 -> {initialize_glider_grid(drawn) : drawn \in GliderDraws}
      [] OTHER      -> {initialize_grid_visual(prior)}

(* "switch (pattern_choice)", then quit = false and generation = 1.        *)
Startup ==
    /\ pc = "startup"
    /\ grid' \in StartGrids(pattern_choice, grid, random_density)
    /\ grid0' = grid'
    /\ density_used' = IF pattern_choice = 1 THEN {random_density} ELSE density_used
    /\ generation' = 1
    /\ quit' = FALSE
    /\ pc' = "started"
    /\ UNCHANGED <<variant, nthreads, next_grid, iter, i, wrow, dispatch, chunk, cp, lock,
                   scratch0, cycles>>
    /\ UNCHANGED <<use_parallel, updates, argv, argi, pattern_choice, random_density,
                   show_help>>
    /\ UNCHANGED <<written, readerVars, fnVars, loopVars, benchVars, countVars>>

(* SDLK_r in the main loop: "initialize_random_grid(grid, random_density)". *)
KeyR ==
    /\ pc = "started"
    /\ grid' \in StartGrids(1, grid, random_density)
    /\ grid0' = grid'
    /\ density_used' = density_used \cup {random_density}
    /\ UNCHANGED <<variant, nthreads, next_grid, iter, pc, i, wrow, dispatch, chunk, cp,
                   lock, scratch0, cycles>>
    /\ UNCHANGED <<argv, argi, pattern_choice, random_density, show_help>>
    /\ UNCHANGED <<written, readerVars, visualVars, fnVars, loopVars, benchVars, countVars>>

(* The command lines of at most MaxArgs words.                             *)
ArgLists == UNION {[1 .. n -> Tokens] : n \in 0 .. MaxArgs}

(* main on entry.                                                          *)
InitArgs ==
    /\ variant = "serial"
    /\ nthreads = MaxThreads
    /\ grid \in VisualStack
    /\ next_grid = Filled(VisualN, GARBAGE)
    /\ iter = 0
    /\ pc = "args"
    /\ i = 0
    /\ wrow = [t \in Team |-> 0]
    /\ dispatch = 0
    /\ chunk = [t \in Team |-> <<0, 0>>]
    /\ cp = 0
    /\ lock = FREE
    /\ grid0 = grid
    /\ scratch0 = next_grid
    /\ cycles = 0
    /\ written = NoWrites(Dim(grid))
    /\ ReaderIdle
    /\ VisualOff
    /\ FnOff
    /\ LoopOff
    /\ BenchOff
    /\ CountOff
    /\ argv \in ArgLists
    /\ argi = 1
    /\ pattern_choice = 0
    /\ random_density = DefaultDensity
    /\ show_help = FALSE
    /\ density_used = {}

NextArgs == ParseArg \/ ArgsEnd \/ Startup \/ KeyR

SpecArgs == InitArgs /\ [][NextArgs]_vars

----------------------------------------------------------------------------
(* count_live_cells of the visual program, one step per row scanned and    *)
(* per private copy combined.                                              *)

(* How the parallel-for can hand the rows to a team of nt (it names no     *)
(* schedule): in contiguous blocks, in turn, or in turn from the last      *)
(* member down.                                                            *)
RowOwners(n, nt) ==
    {[r \in Idx(n) |-> (r * nt) \div n],
     [r \in Idx(n) |-> r % nt],
     [r \in Idx(n) |-> (nt - 1) - (r % nt)]}

ReduceKeepLast(c, p) == p

(* "reduction(+:count)": a private copy is combined into count.            *)
ReduceAdd(c, p) == c + p

(* "int count = 0" and the fork: every member gets a private copy of       *)
(* count, 0, and its rows.                                                 *)
CountFork ==
    /\ pc = "count_call"
    /\ \E owner \in RowOwners(Dim(grid), nthreads) :
           todo' = [t \in Team |-> {r \in DOMAIN grid : owner[r] = t}]
    /\ count' = 0
    /\ private_count' = [t \in Team |-> 0]
    /\ combined' = {}
    /\ pc' = "count_loop"
    /\ UNCHANGED <<variant, nthreads, grid, next_grid, iter, i, wrow, dispatch, chunk,
                   cp, lock, grid0, scratch0, cycles>>
    /\ UNCHANGED <<written, readerVars, visualVars, fnVars, loopVars, benchVars, argVars>>

(* Member t scans its next row: the inner j loop, "count++" on its private *)
(* copy for every ALIVE cell.                                              *)
CountRow(t) ==
    /\ pc = "count_loop"
    /\ todo[t] # {}
    /\ LET r == CHOOSE x \in todo[t] : \A y \in todo[t] : x <= y
       IN /\ private_count' = [private_count EXCEPT ![t] = @ + count_row(grid, r)]
          /\ todo' = [todo EXCEPT ![t] = @ \ {r}]
    /\ UNCHANGED <<textVars, readerVars, visualVars, fnVars, loopVars, benchVars, argVars>>
    /\ UNCHANGED <<count, combined>>

(* Member t has scanned its rows and its private copy is combined into     *)
(* count.                                                                  *)
CountCombine(t) ==
    /\ pc = "count_loop"
    /\ todo[t] = {}
    /\ t \notin combined
    /\ count' = ReduceAdd(count, private_count[t])
    /\ combined' = combined \cup {t}
    /\ UNCHANGED <<textVars, readerVars, visualVars, fnVars, loopVars, benchVars, argVars>>
    /\ UNCHANGED <<private_count, todo>>

(* Past the barrier: "return count".                                       *)
CountReturn ==
    /\ pc = "count_loop"
    /\ combined = Team
    /\ ret' = count
    /\ fn' = "count_live_cells"
    /\ pc' = "count_returned"
    /\ UNCHANGED <<variant, nthreads, grid, next_grid, iter, i, wrow, dispatch, chunk,
                   cp, lock, grid0, scratch0, cycles>>
    /\ UNCHANGED <<written, arg, readerVars, visualVars, mainVars, loopVars>>

(* The call: any grid of the window, any team size.                        *)
InitCount ==
    /\ variant = "serial"
    /\ nthreads \in 1 .. MaxThreads
    /\ grid \in InitialGrids
    /\ next_grid = Filled(N, GARBAGE)
    /\ iter = 0
    /\ pc = "count_call"
    /\ i = 0
    /\ wrow = [t \in Team |-> 0]
    /\ dispatch = 0
    /\ chunk = [t \in Team |-> <<0, 0>>]
    /\ cp = 0
    /\ lock = FREE
    /\ grid0 = grid
    /\ scratch0 = next_grid
    /\ cycles = 0
    /\ written = NoWrites(Dim(grid))
    /\ ReaderIdle
    /\ VisualOff
    /\ FnOff
    /\ LoopOff
    /\ MainOff

NextCount ==
    \/ CountFork
    \/ \E t \in Team : CountRow(t) \/ CountCombine(t)
    \/ CountReturn

SpecCount == InitCount /\ [][NextCount]_vars

----------------------------------------------------------------------------
(* The main loop of the visual program step by step, on the small torus:   *)
(* the events, count_live_cells and render_grid reading the grid row by    *)
(* row, SDL_RenderPresent, the update function use_parallel selects        *)
(* writing row by row, and the statements that end the pass.  The calling  *)
(* thread runs them in the order of the text; the teams of the             *)
(* parallel-for loops run inside the calls.                                *)

UpdateFunction(par) == IF par THEN "update_grid_parallel" ELSE "update_grid_serial"

(* The grids initialize_random_grid leaves on the small torus, for two of  *)
(* the ways rand() can fall.                                               *)
LoopRandomGrids(density) ==
    {initialize_random_grid(
         [r \in Idx(N) |-> [c \in Idx(N) |->
             IF <<r, c>> \in low THEN Float("num", 0) ELSE Float("num", 999)]],
         density) :
     low \in {{<<0, 0>>, <<0, 1>>, <<1, 0>>}, {<<1, 1>>}}}

LoopEventsRestart ==
    /\ pc = "lp_head"
    /\ MainLoopCond(quit, generation, LoopIters)
    /\ \E q \in EventQueues :
       \E rg \in (IF \E k \in DOMAIN q : q[k] = "r"
                  THEN LoopRandomGrids(random_density) ELSE {grid}) :
          LET st == HandleEvents(q, [quit |-> quit, use_parallel |-> use_parallel,
                                     grid |-> grid, reset |-> FALSE], rg)
          IN /\ quit' = st.quit
             /\ use_parallel' = st.use_parallel
             /\ grid' = st.grid
             /\ grid0' = IF st.reset THEN st.grid ELSE grid0
             /\ cycles' = IF st.reset THEN 0 ELSE cycles
             /\ reset_at' = IF st.reset THEN generation ELSE reset_at
             /\ generation' = IF st.reset THEN 1 ELSE generation
    /\ pc' = "count_call"
    /\ UNCHANGED <<variant, nthreads, next_grid, iter, i, wrow, dispatch, chunk, cp, lock,
                   scratch0, written, updates>>
    /\ UNCHANGED <<readerVars, fnVars, mainVars>>
    /\ UNCHANGED <<serial_generations, parallel_generations, live_count, frame, shown>>

(* Head of the loop and the event loop: the loop condition holds, the      *)
(* events waiting are handled, and main goes on to count_live_cells.       *)
LoopEvents ==
    /\ pc = "lp_head"
    /\ MainLoopCond(quit, generation, LoopIters)
    /\ \E q \in EventQueues :
       \E rg \in (IF \E k \in DOMAIN q : q[k] = "r"
                  THEN LoopRandomGrids(random_density) ELSE {grid}) :
          LET st == HandleEvents(q, [quit |-> quit, use_parallel |-> use_parallel,
                                     grid |-> grid, reset |-> FALSE], rg)
          IN /\ quit' = st.quit
             /\ use_parallel' = st.use_parallel
             /\ grid' = st.grid
             /\ grid0' = IF st.reset THEN st.grid ELSE grid0
             /\ cycles' = IF st.reset THEN 0 ELSE cycles
             /\ reset_at' = IF st.reset THEN generation ELSE reset_at
    /\ pc' = "count_call"
    /\ UNCHANGED <<variant, nthreads, next_grid, iter, i, wrow, dispatch, chunk, cp, lock,
                   scratch0, written, generation, updates>>
    /\ UNCHANGED <<readerVars, fnVars, mainVars>>
    /\ UNCHANGED <<serial_generations, parallel_generations, live_count, frame, shown>>

(* The loop condition fails: main goes on to the final statistics and the  *)
(* final pause.                                                            *)
LoopExit ==
    /\ pc = "lp_head"
    /\ ~MainLoopCond(quit, generation, LoopIters)
    /\ pc' = "lp_exit"
    /\ UNCHANGED <<variant, nthreads, grid, next_grid, iter, i, wrow, dispatch, chunk,
                   cp, lock, grid0, scratch0, cycles, written>>
    /\ UNCHANGED <<readerVars, visualVars, fnVars, mainVars, loopVars>>

(* "int live_count = count_live_cells(grid)" has returned; render_grid is  *)
(* called.                                                                 *)
RenderCall ==
    /\ pc = "count_returned"
    /\ live_count' = ret
    /\ frame' = <<>>
    /\ pc' = "lp_render"
    /\ UNCHANGED <<variant, nthreads, grid, next_grid, iter, i, wrow, dispatch, chunk,
                   cp, lock, grid0, scratch0, cycles, written>>
    /\ UNCHANGED <<readerVars, visualVars, fnVars, mainVars>>
    /\ UNCHANGED <<serial_generations, parallel_generations, shown, reset_at>>

(* One pass of the outer loop of render_grid: a row of the grid is drawn.  *)
RenderRow ==
    /\ pc = "lp_render"
    /\ RowLoopCond(Len(frame), Dim(grid))
    /\ frame' = Append(frame, grid[Len(frame)])
    /\ UNCHANGED <<textVars, readerVars, visualVars, fnVars, mainVars>>
    /\ UNCHANGED <<serial_generations, parallel_generations, live_count, shown, reset_at>>

(* render_grid has returned; SDL_RenderPresent puts the frame on the       *)
(* screen.                                                                 *)
Present ==
    /\ pc = "lp_render"
    /\ ~RowLoopCond(Len(frame), Dim(grid))
    /\ shown' = [gen     |-> generation,
                 grid    |-> [r \in Idx(Len(frame)) |-> frame[r + 1]],
                 live    |-> live_count,
                 updates |-> updates]
    /\ pc' = "lp_update"
    /\ UNCHANGED <<variant, nthreads, grid, next_grid, iter, i, wrow, dispatch, chunk,
                   cp, lock, grid0, scratch0, cycles, written>>
    /\ UNCHANGED <<readerVars, visualVars, fnVars, mainVars>>
    /\ UNCHANGED <<serial_generations, parallel_generations, live_count, frame, reset_at>>

(* "if (use_parallel) update_grid_parallel(...); else                      *)
(* update_grid_serial(...)": the call.                                     *)
UpdateCall ==
    /\ pc = "lp_update"
    /\ variant' = UpdateFunction(use_parallel)
    /\ pc' = "upd_compute"
    /\ i' = 0
    /\ dispatch' = 0
    /\ chunk' = [t \in Team |-> <<0, 0>>]
    /\ written' = NoWrites(Dim(grid))
    /\ UNCHANGED <<nthreads, grid, next_grid, iter, wrow, cp, lock, grid0, scratch0, cycles>>
    /\ UNCHANGED <<readerVars, visualVars, fnVars, mainVars, loopVars>>

(* update_grid_serial: one pass of the first row loop.                     *)
UpdSerialRow ==
    /\ pc = "upd_compute"
    /\ variant = "update_grid_serial"
    /\ RowLoopCond(i, Dim(grid))
    /\ next_grid' = ComputeRow(grid, next_grid, i)
    /\ written' = Wrote(written, i, MASTER)
    /\ i' = i + 1
    /\ UNCHANGED <<variant, nthreads, grid, iter, pc, wrow, dispatch, chunk, cp, lock,
                   grid0, scratch0, cycles>>
    /\ UNCHANGED <<readerVars, visualVars, fnVars, mainVars, loopVars>>

(* update_grid_serial: the first loop has ended, the copy loop starts.     *)
UpdSerialLoopEnd ==
    /\ pc = "upd_compute"
    /\ variant = "update_grid_serial"
    /\ ~RowLoopCond(i, Dim(grid))
    /\ pc' = "upd_copy"
    /\ i' = 0
    /\ written' = NoWrites(Dim(grid))
    /\ UNCHANGED <<variant, nthreads, grid, next_grid, iter, wrow, dispatch, chunk, cp,
                   lock, grid0, scratch0, cycles>>
    /\ UNCHANGED <<readerVars, visualVars, fnVars, mainVars, loopVars>>

(* update_grid_serial: one pass of the copy loop.                          *)
UpdSerialCopy ==
    /\ pc = "upd_copy"
    /\ variant = "update_grid_serial"
    /\ RowLoopCond(i, Dim(grid))
    /\ grid' = CopyRow(grid, next_grid, i)
    /\ written' = Wrote(written, i, MASTER)
    /\ i' = i + 1
    /\ UNCHANGED <<variant, nthreads, next_grid, iter, pc, wrow, dispatch, chunk, cp, lock,
                   grid0, scratch0, cycles>>
    /\ UNCHANGED <<readerVars, visualVars, fnVars, mainVars, loopVars>>

(* update_grid_parallel, either loop: a member of the team with no rows    *)
(* left takes the next chunk of schedule(guided, 1).                       *)
UpdGrab(t) ==
    /\ pc \in {"upd_compute", "upd_copy"}
    /\ variant = "update_grid_parallel"
    /\ chunk[t][1] >= chunk[t][2]
    /\ RowLoopCond(dispatch, Dim(grid))
    /\ LET size == GuidedChunkSize(Dim(grid) - dispatch, nthreads) IN
       /\ chunk' = [chunk EXCEPT ![t] = <<dispatch, dispatch + size>>]
       /\ dispatch' = dispatch + size
    /\ UNCHANGED <<variant, nthreads, grid, next_grid, iter, pc, i, wrow, cp, lock,
                   grid0, scratch0, cycles, written>>
    /\ UNCHANGED <<readerVars, visualVars, fnVars, mainVars, loopVars>>

(* update_grid_parallel: a member of the team runs the loop body for the   *)
(* next row of its chunk, in the first loop computing the row of the       *)
(* scratch grid and in the second copying it into the grid.                *)
UpdRow(t) ==
    /\ pc \in {"upd_compute", "upd_copy"}
    /\ variant = "update_grid_parallel"
    /\ chunk[t][1] < chunk[t][2]
    /\ IF pc = "upd_compute"
       THEN /\ next_grid' = ComputeRow(grid, next_grid, chunk[t][1])
            /\ grid' = grid
       ELSE /\ grid' = CopyRow(grid, next_grid, chunk[t][1])
            /\ next_grid' = next_grid
    /\ written' = Wrote(written, chunk[t][1], t)
    /\ chunk' = [chunk EXCEPT ![t] = <<chunk[t][1] + 1, chunk[t][2]>>]
    /\ UNCHANGED <<variant, nthreads, iter, pc, i, wrow, dispatch, cp, lock,
                   grid0, scratch0, cycles>>
    /\ UNCHANGED <<readerVars, visualVars, fnVars, mainVars, loopVars>>

ComputeBarrierMasterOnly(ws, n) == TeamFinishedMasterOnly("update_grid_parallel", n, ws)

(* The implicit barrier that ends the first parallel-for of                *)
(* update_grid_parallel.                                                   *)
ComputeBarrier(ws, n) == TeamFinished("update_grid_parallel", n, ws)

CopyBarrierMasterOnly(ws, n) == TeamFinishedMasterOnly("update_grid_parallel", n, ws)

(* The implicit barrier that ends its second parallel-for.                 *)
CopyBarrier(ws, n) == TeamFinished("update_grid_parallel", n, ws)

TeamState == [wrow |-> wrow, dispatch |-> dispatch, chunk |-> chunk]

(* update_grid_parallel: past the barrier of the first loop the second     *)
(* loop starts, with a team of its own.                                    *)
UpdBarrier ==
    /\ pc = "upd_compute"
    /\ variant = "update_grid_parallel"
    /\ ComputeBarrier(TeamState, Dim(grid))
    /\ pc' = "upd_copy"
    /\ dispatch' = 0
    /\ chunk' = [t \in Team |-> <<0, 0>>]
    /\ written' = NoWrites(Dim(grid))
    /\ UNCHANGED <<variant, nthreads, grid, next_grid, iter, i, wrow, cp, lock,
                   grid0, scratch0, cycles>>
    /\ UNCHANGED <<readerVars, visualVars, fnVars, mainVars, loopVars>>

(* The update function returns and the pass ends: the tally of the mode    *)
(* used is incremented and, after the title and the delay, generation.     *)
UpdReturn ==
    /\ pc = "upd_copy"
    /\ IF variant = "update_grid_parallel"
       THEN CopyBarrier(TeamState, Dim(grid))
       ELSE ~RowLoopCond(i, Dim(grid))
    /\ serial_generations' = IF use_parallel THEN serial_generations
                                             ELSE serial_generations + 1
    /\ parallel_generations' = IF use_parallel THEN parallel_generations + 1
                                               ELSE parallel_generations
    /\ generation' = generation + 1
    /\ updates' = updates + 1
    /\ cycles' = cycles + 1
    /\ pc' = "lp_head"
    /\ i' = 0
    /\ dispatch' = 0
    /\ chunk' = [t \in Team |-> <<0, 0>>]
    /\ written' = NoWrites(Dim(grid))
    /\ UNCHANGED <<variant, nthreads, grid, next_grid, iter, wrow, cp, lock, grid0, scratch0>>
    /\ UNCHANGED <<use_parallel, quit>>
    /\ UNCHANGED <<readerVars, fnVars, mainVars>>
    /\ UNCHANGED <<live_count, frame, shown, reset_at>>

(* main up to the loop, on the small torus: any grid of the narrow window  *)
(* as the initial pattern, the scratch grid an uninitialised stack array,  *)
(* -p given or not.                                                        *)
InitLoop ==
    /\ variant = "serial"
    /\ nthreads \in {1, MaxThreads}
    /\ grid \in NarrowGrids
    /\ next_grid = Filled(N, GARBAGE)
    /\ iter = 0
    /\ pc = "lp_head"
    /\ i = 0
    /\ wrow = [t \in Team |-> 0]
    /\ dispatch = 0
    /\ chunk = [t \in Team |-> <<0, 0>>]
    /\ cp = 0
    /\ lock = FREE
    /\ grid0 = grid
    /\ scratch0 = next_grid
    /\ cycles = 0
    /\ written = NoWrites(Dim(grid))
    /\ ReaderIdle
    /\ generation = 1
    /\ use_parallel \in BOOLEAN
    /\ quit = FALSE
    /\ updates = 0
    /\ FnOff
    /\ LoopOff
    /\ MainOff

NextLoop ==
    \/ LoopEvents
    \/ LoopExit
    \/ CountFork
    \/ \E t \in Team : CountRow(t) \/ CountCombine(t)
    \/ CountReturn
    \/ RenderCall
    \/ RenderRow
    \/ Present
    \/ UpdateCall
    \/ UpdSerialRow
    \/ UpdSerialLoopEnd
    \/ UpdSerialCopy
    \/ \E t \in Team : UpdGrab(t) \/ UpdRow(t)
    \/ UpdBarrier
    \/ UpdReturn

SpecLoop == InitLoop /\ [][NextLoop]_vars

----------------------------------------------------------------------------
(* The Game of Life as the design states it, written without the           *)
(* program's operators: the yardstick of the properties below.             *)

(* The eight cells around (row, col) on the torus of dimension n.          *)
TorusNeighbors(row, col, n) ==
    {<<(row + di) % n, (col + dj) % n>> : <<di, dj>> \in ((-1 .. 1) \X (-1 .. 1)) \ {<<0, 0>>}}

LiveAround(g, row, col) ==
    Cardinality({rc \in TorusNeighbors(row, col, Dim(g)) : g[rc[1]][rc[2]] = ALIVE})

RuleTable(cell, n) ==
    IF (cell = ALIVE /\ n \in {2, 3}) \/ (cell = DEAD /\ n = 3) THEN ALIVE ELSE DEAD

LifeStep(g) ==
    [r \in DOMAIN g |-> [c \in DOMAIN g |-> RuleTable(g[r][c], LiveAround(g, r, c))]]

RECURSIVE LifeIter(_, _)
LifeIter(g, k) == IF k = 0 THEN g ELSE LifeIter(LifeStep(g), k - 1)

Returned == pc = "done"

----------------------------------------------------------------------------
(* Properties.                                                             *)

(* C1: with no reader of the grid beside the run, each of the four         *)
(* parallel variants returns with the grid simulate_serial returns with    *)
(* from the same initial grid, for every team size and interleaving.       *)
C1_ParallelEqualsSerial ==
    (Returned /\ variant \in ParallelVariants)
        => grid = simulate_serial(grid0, scratch0, 0, Iters)[1]

C1_Witness ==
    /\ Returned
    /\ variant = "guided_no_critical"
    /\ nthreads = MaxThreads
    /\ grid # grid0

(* C2: for either cell state and every neighbour count 0..8 the rule       *)
(* yields ALIVE exactly for (ALIVE, 2 or 3) and (DEAD, 3), and that is the *)
(* value the row loop writes into the scratch grid.                        *)
C2_TransitionRule ==
    /\ fn = "NextCell" => ret = RuleTable(arg[1], arg[2])
    /\ fn = "ComputeRow" =>
          \A c \in DOMAIN grid :
              ret[arg][c] = RuleTable(grid[arg][c], count_neighbors(grid, arg, c))

C2_Witness ==
    /\ fn = "ComputeRow"
    /\ \E c \in DOMAIN grid :
          /\ grid[arg][c] = ALIVE
          /\ count_neighbors(grid, arg, c) = 3
          /\ ret[arg][c] = ALIVE

(* C3: count_neighbors returns, for every grid and coordinate, a value in  *)
(* 0..8 that is the number of ALIVE cells among the eight toroidal         *)
(* neighbours, the cell itself not counted; at (0,0) the cells (N-1,N-1),  *)
(* (N-1,0) and (0,N-1) are among those counted.                            *)
C3_CountNeighbors ==
    fn = "count_neighbors" =>
        LET n == Dim(grid)
            corners == {<<n - 1, n - 1>>, <<n - 1, 0>>, <<0, n - 1>>}
        IN /\ ret \in 0 .. 8
           /\ ret = LiveAround(grid, arg[1], arg[2])
           /\ arg = <<0, 0>> =>
                 /\ corners \subseteq TorusNeighbors(0, 0, n)
                 /\ ret >= Cardinality(corners \cap AliveCells(grid))

C3_Witness ==
    /\ fn = "count_neighbors"
    /\ arg = <<0, 0>>
    /\ Dim(grid) = FnDim
    /\ AliveCells(grid) = {<<FnDim - 1, FnDim - 1>>, <<0, 0>>}
    /\ ret = 1

(* C7: simulate_serial returns with the same grid whatever the scratch     *)
(* grid held on entry: the grid of this run is the grid of the run from    *)
(* the same initial grid with any other scratch contents.                  *)
C7_SerialDeterministic ==
    (Returned /\ variant = "serial")
        => \A s \in Scratches : simulate_serial(grid0, s, 0, Iters)[1] = grid

C7_Witness ==
    /\ Returned
    /\ variant = "serial"
    /\ scratch0 = Filled(N, GARBAGE)
    /\ grid # grid0

(* C8: when a run returns, the grid is the initial grid advanced by the    *)
(* one-generation step exactly as many times as the generation limit, and  *)
(* that many compute+publish cycles were performed.                        *)
C8_ExactlyLimitGenerations ==
    Returned => /\ grid = LifeIter(grid0, Iters)
                /\ cycles = Iters

C8_Witness ==
    /\ Returned
    /\ grid = LifeIter(grid0, Iters)
    /\ grid # LifeIter(grid0, Iters - 1)

(* The grid the reader has put together, and the grids of the single      *)
(* generations of the run.                                                 *)
SnapGrid == [r \in Idx(Len(snap)) |-> snap[r + 1]]

Generations == {LifeIter(grid0, k) : k \in 0 .. Iters}

SnapComplete == rpc = "done"

(* Every row is a row of generation k or of generation k+1, and the whole  *)
(* is neither.                                                             *)
TornBetween(k) ==
    LET a == LifeIter(grid0, k)
        b == LifeIter(grid0, k + 1)
    IN /\ \A r \in DOMAIN SnapGrid : SnapGrid[r] = a[r] \/ SnapGrid[r] = b[r]
       /\ SnapGrid # a
       /\ SnapGrid # b

C5_TornOnlyAcrossCopy ==
    (SnapComplete /\ variant \in NoLockVariants /\ SnapGrid \notin Generations) => overlap

C5_Witness ==
    /\ SnapComplete
    /\ variant \in NoLockVariants
    /\ overlap
    /\ \E k \in 0 .. (Iters - 1) : TornBetween(k)

(* The grids a no-lock variant can return with from initial grid g and     *)
(* scratch grid nx, over all interleavings of a team of nt.                *)
FinalGrids(v, nt, g, nx) == {p[1] : p \in ParallelOutcomes(v, nt, {<<g, nx>>}, 0, Iters)}

(* C6: run as the benchmark runs it, a variant without the critical        *)
(* section can end in different final grids from one initial grid under    *)
(* different interleavings of the team.                                    *)
C6_NoCriticalResultsDiffer ==
    (Returned /\ variant \in NoLockVariants /\ nthreads > 1) =>
        \E g \in InitialGrids, nx \in Scratches :
            Cardinality(FinalGrids(variant, nthreads, g, nx)) > 1

(* C9: under fair scheduling every variant returns, and it returns having  *)
(* performed exactly as many compute+publish cycles as the generation      *)
(* limit: no deadlock at the barrier or the critical section, no early     *)
(* exit.                                                                   *)
C9_EveryVariantReturns == <>(Returned /\ cycles = Iters)

C9_Witness ==
    /\ Returned
    /\ variant = "guided"
    /\ nthreads = MaxThreads
    /\ cycles = Iters

(* The cells of a set moved by (dr, dc) on the torus of dimension n.       *)
Translated(cells, dr, dc, n) == {<<(rc[1] + dr) % n, (rc[2] + dc) % n>> : rc \in cells}

GliderPlaced == {<<10, 11>>, <<11, 12>>, <<12, 10>>, <<12, 11>>, <<12, 12>>}

InVisual == pc \in {"main_loop", "main_exit"}

(* C10: from a grid whose only ALIVE cells are the five glider cells       *)
(* (10,11), (11,12), (12,10), (12,11), (12,12), after exactly 4 updates    *)
(* the ALIVE cells are exactly that shape moved by (+1,+1) modulo the grid *)
(* dimension, whichever update function made each of the 4 updates.        *)
C10_GliderTranslates ==
    (InVisual /\ AliveCells(grid0) = GliderPlaced /\ cycles = 4)
        => AliveCells(grid) = Translated(GliderPlaced, 1, 1, Dim(grid))

C10_Witness ==
    /\ InVisual
    /\ AliveCells(grid0) = GliderPlaced
    /\ cycles = 4
    /\ AliveCells(grid) = {<<11, 12>>, <<12, 0>>, <<0, 11>>, <<0, 12>>, <<0, 0>>}

(* The four cells of the 2x2 block whose top left cell is (r, c), on the   *)
(* torus of dimension n.                                                   *)
BlockAt(r, c, n) ==
    {<<r, c>>, <<r, (c + 1) % n>>, <<(r + 1) % n, c>>, <<(r + 1) % n, (c + 1) % n>>}

IsBlock(g) == \E rc \in Cells(Dim(g)) : AliveCells(g) = BlockAt(rc[1], rc[2], Dim(g))

AllDead(g) == \A rc \in Cells(Dim(g)) : g[rc[1]][rc[2]] = DEAD

(* C12: once the visual driver holds a grid with every cell DEAD, every    *)
(* later pass of the main loop, whether it calls update_grid_serial or     *)
(* update_grid_parallel, leaves every cell DEAD.                           *)
C12_AllDeadStaysDead == (InVisual /\ AllDead(grid0)) => AllDead(grid)

C12_Witness ==
    /\ InVisual
    /\ AllDead(grid0)
    /\ cycles >= 2
    /\ use_parallel
    /\ AllDead(grid)

(* The cells of the centre square of side size on a grid of dimension n.   *)
CentreSquare(n, size) ==
    {rc \in Cells(n) : /\ (n - size) \div 2 <= rc[1] /\ rc[1] < (n - size) \div 2 + size
                       /\ (n - size) \div 2 <= rc[2] /\ rc[2] < (n - size) \div 2 + size}

(* C13: when the visual driver starts with the standard pattern, whatever  *)
(* its grid array held before, the grid before the first generation has    *)
(* exactly the cells of the centre 10x10 square ALIVE and every other cell *)
(* DEAD, and count_live_cells returns 100.                                 *)
C13_CentreBlockOfHundred ==
    (pc = "started" /\ pattern_choice = 0 /\ density_used = {})
        => /\ \A rc \in Cells(VisualN) :
                  grid[rc[1]][rc[2]] =
                      IF rc \in CentreSquare(VisualN, CENTER_SIZE) THEN ALIVE ELSE DEAD
           /\ count_live_cells(grid) = 100

C13_Witness ==
    /\ pc = "started"
    /\ pattern_choice = 0
    /\ density_used = {}
    /\ argv = <<"-p">>
    /\ grid[1][1] = ALIVE
    /\ grid[10][10] = ALIVE
    /\ grid[0][0] = DEAD
    /\ grid[11][11] = DEAD
    /\ count_live_cells(grid) = 100

(* The order the design gives for the variants of a round.                 *)
RoundOrder == <<"serial", "static", "guided", "static_no_critical", "guided_no_critical">>

Occurrences(seq, v) == Cardinality({k \in DOMAIN seq : seq[k] = v})

InBenchmark == pc \in {"measure", "report_best", "report_scheduling", "report_critical", "exit"}

(* C14: the runs of the benchmark follow the order serial, static, guided, *)
(* static-no-critical, guided-no-critical round after round; each run adds *)
(* one duration to the total of the variant run and to no other; when the  *)
(* measurement loop is left every variant has been run once per round; and *)
(* every run starts from the centred-block grid, whatever the run before   *)
(* left in the array.                                                      *)
C14_RoundsOrderedAndFresh ==
    /\ [](InBenchmark =>
            /\ \A k \in DOMAIN runs : runs[k] = RoundOrder[((k - 1) % 5) + 1]
            /\ pc # "measure" =>
                   \A v \in Variants : Occurrences(runs, v) = Rounds
            /\ pc = "measure" =>
                   \A v \in Variants :
                       /\ times[v].den = 1
                       /\ Occurrences(runs, v) <= times[v].num
                       /\ times[v].num <= 2 * Occurrences(runs, v)
            /\ runs # <<>> =>
                   grid0 = GridOf(BenchN, CentreSquare(BenchN, BenchCentre)))
    /\ [][(pc = "measure" /\ runs' # runs) =>
             /\ Len(runs') = Len(runs) + 1
             /\ \E d \in {1, 2} :
                    times' = [times EXCEPT ![runs'[Len(runs')]] =
                                 [num |-> @.num + d, den |-> 1]]]_vars

C14_Witness ==
    /\ pc = "report_best"
    /\ Len(runs) = 5 * Rounds
    /\ nthreads = MaxThreads
    /\ times["serial"] = [num |-> 2 * Rounds, den |-> Rounds]
    /\ times["guided"] = [num |-> Rounds, den |-> Rounds]
    /\ runs[Len(runs)] = "guided_no_critical"
    /\ grid0 = GridOf(BenchN, CentreSquare(BenchN, BenchCentre))

(* Variant v has a mean no other variant is below.                         *)
IsLowest(v) == \A w \in Variants : times[v].num * times[w].den <= times[w].num * times[v].den

(* The first variant of the design's order among those with a lowest mean. *)
FirstLowest ==
    RoundOrder[CHOOSE k \in 1 .. 5 :
                   /\ IsLowest(RoundOrder[k])
                   /\ \A j \in 1 .. (k - 1) : ~IsLowest(RoundOrder[j])]

(* C15: the variant the report names as best has the lowest mean, and      *)
(* among the variants that share the lowest mean it is the first in the    *)
(* order serial, static, guided, static-no-critical, guided-no-critical.   *)
C15_BestIsFirstLowest ==
    \A b \in report.best :
        /\ b.version = Label(FirstLowest)
        /\ b.time = times[FirstLowest]

C15_Witness ==
    /\ pc = "exit"
    /\ times["serial"].num > times["static"].num
    /\ times["guided"].num > times["static"].num
    /\ times["static_no_critical"].num > times["static"].num
    /\ times["guided_no_critical"].num = times["static"].num
    /\ \E b \in report.best : b.version = "Parallel (Static)"

(* The means of the two guarded parallel variants, crosswise on a common   *)
(* denominator.                                                            *)
StaticMean == times["static"].num * times["guided"].den

GuidedMean == times["guided"].num * times["static"].den

(* C16: the comparison line says static was better exactly when the static *)
(* mean is below the guided mean, guided exactly when the guided mean is   *)
(* below the static mean, equal exactly when the two means are equal, and  *)
(* the percentage printed is 100 times the difference of the two means     *)
(* over the larger of them.                                                *)
C16_SchedulingComparison ==
    \A c \in report.scheduling :
        /\ c.line = "Static scheduling performed better than guided scheduling by"
               <=> StaticMean < GuidedMean
        /\ c.line = "Guided scheduling performed better than static scheduling by"
               <=> GuidedMean < StaticMean
        /\ c.line = "Both scheduling methods performed equally"
               <=> StaticMean = GuidedMean
        /\ StaticMean < GuidedMean =>
               c.percent.num * GuidedMean = 100 * (GuidedMean - StaticMean) * c.percent.den
        /\ GuidedMean < StaticMean =>
               c.percent.num * StaticMean = 100 * (StaticMean - GuidedMean) * c.percent.den

C16_Witness ==
    /\ pc = "exit"
    /\ times["static"] = [num |-> Rounds, den |-> Rounds]
    /\ times["guided"] = [num |-> 2 * Rounds, den |-> Rounds]
    /\ \E c \in report.scheduling :
           /\ c.line = "Static scheduling performed better than guided scheduling by"
           /\ c.percent.num = 50 * c.percent.den

(* C17: every density initialize_random_grid is called with, at start-up   *)
(* and on an R reset, lies strictly between 0 and 1.                       *)
C17_DensityInOpenUnit ==
    \A d \in density_used : d.kind = "num" /\ 0 < d.milli /\ d.milli < 1000

(* C18: in the visual driver the generation counter starts at 1 and each   *)
(* step leaves it or adds exactly 1 to it; an update of the grid is made   *)
(* only in a step that finds the counter in 1..ITERATIONS and adds 1 to    *)
(* it, so the updates made are always one fewer than the counter and never *)
(* more than ITERATIONS; and a run that leaves the loop with no quit event *)
(* has made exactly ITERATIONS updates.                                    *)
C18_GenerationCounter ==
    /\ InVisual => generation = 1
    /\ [](InVisual =>
            /\ generation >= 1
            /\ updates = generation - 1
            /\ updates <= VisualIters
            /\ (pc = "main_exit" /\ ~quit) => updates = VisualIters)
    /\ [][InVisual =>
            \/ generation' = generation /\ updates' = updates
            \/ /\ generation \in 1 .. VisualIters
               /\ generation' = generation + 1
               /\ updates' = updates + 1]_vars

C18_Witness ==
    /\ pc = "main_exit"
    /\ ~quit
    /\ updates = VisualIters
    /\ generation = VisualIters + 1

(* C19: count_live_cells returns the number of ALIVE cells of the grid,    *)
(* for every team size, every way the rows are handed out and every order  *)
(* in which the members scan their rows and combine their private counts,  *)
(* and the grid is as it was at the call.                                  *)
C19_CountIsExact ==
    pc = "count_returned" => (ret = Cardinality(AliveCells(grid)) /\ grid = grid0)

C19_Witness ==
    /\ pc = "count_returned"
    /\ nthreads = MaxThreads
    /\ ret = 4
    /\ \A t \in Team : private_count[t] > 0

(* C20: in every variant a step of the compute phase leaves the grid as it *)
(* is, and what it writes into the scratch grid is one row of the next     *)
(* generation of the grid, whatever the scratch grid holds; the grid       *)
(* changes only in the publication step, by receiving one row of the       *)
(* scratch grid, and the publication step leaves the scratch grid as it    *)
(* is.                                                                     *)
C20_PhasesSeparateGridAndScratch ==
    [][/\ pc = "compute" => grid' = grid
       /\ next_grid' # next_grid =>
              /\ pc = "compute"
              /\ \E r \in DOMAIN grid :
                     next_grid' = [next_grid EXCEPT ![r] = LifeStep(grid)[r]]
       /\ grid' # grid =>
              /\ pc = "copy"
              /\ next_grid' = next_grid
              /\ \E r \in DOMAIN grid : grid' = [grid EXCEPT ![r] = next_grid[r]]]_vars

C20_Witness ==
    /\ pc = "copy"
    /\ variant = "guided"
    /\ nthreads = MaxThreads
    /\ cycles >= 1
    /\ cp = 1
    /\ grid[0] = next_grid[0]
    /\ grid[1] # next_grid[1]
    /\ scratch0 = Filled(N, GARBAGE)

(* C21: in the compute phase of every generation of every parallel         *)
(* variant, for every team size, no row of the scratch grid is handed out  *)
(* twice, to the same member or to two, each row handed out holds the next *)
(* generation of that row, and when the team has run out of rows every row *)
(* has been written exactly once.                                          *)
C21_RowsWrittenOnce ==
    variant \in ParallelVariants =>
        /\ \A r \in DOMAIN written :
               /\ Len(written[r]) <= 1
               /\ Len(written[r]) = 1 =>
                      /\ written[r][1] \in Team
                      /\ next_grid[r] = LifeStep(grid)[r]
        /\ (pc = "compute" /\ TeamDone) => \A r \in DOMAIN written : Len(written[r]) = 1

C21_Witness ==
    /\ pc = "compute" /\ TeamDone /\ cycles = 1
    /\ variant = "guided" /\ nthreads = MaxThreads
    /\ \A r \in DOMAIN written : Len(written[r]) = 1
    /\ \E r, q \in DOMAIN written : written[r] = <<0>> /\ written[q] = <<MaxThreads - 1>>
    /\ scratch0 = Filled(N, GARBAGE)

(* A member of the team runs the loop body for a row; memcpy moves a row;  *)
(* the calling thread passes the barrier that ends the parallel-for.       *)
ComputesRow == \E r \in DOMAIN written : Len(written'[r]) > Len(written[r])

CopiesRow == cp' = cp + 1

PassesBarrier == pc = "compute" /\ pc' # "compute"

(* The steps of a parallel variant keep the phases of a generation apart.  *)
OrderedStep ==
    variant \in ParallelVariants =>
          /\ ComputesRow =>
                 /\ pc = "compute" /\ pc' = "compute"
                 /\ ~CopyInFlight
                 /\ lock = FREE
                 /\ cycles = iter
                 /\ iter > 0 =>
                        /\ ~CopyCond(cp, Dim(grid))
                        /\ \A r \in DOMAIN written :
                               Len(written[r]) = 0 => grid[r] = next_grid[r]
          /\ PassesBarrier =>
                 /\ TeamDone
                 /\ \A r \in DOMAIN written : Len(written[r]) = 1
                 /\ cp' = 0
          /\ CopiesRow =>
                 /\ pc = "copy"
                 /\ written = NoWrites(Dim(grid))
                 /\ next_grid' = next_grid

(* C22: in every parallel variant a member computes a row only in the      *)
(* compute phase, with no copy in flight: from the second generation on    *)
(* the copy of the generation before has moved every row, so that the grid *)
(* holds the whole scratch grid wherever this phase has not yet written    *)
(* it.  The calling thread passes the barrier only when every member has   *)
(* run out of rows and every row has been computed, and rows are copied    *)
(* only past the barrier.                                                  *)
C22_GenerationsInOrder == [][OrderedStep]_vars

C22_Witness ==
    /\ pc = "compute" /\ variant = "static_no_critical" /\ nthreads = MaxThreads
    /\ iter = 1 /\ cp = N
    /\ written[0] = <<>> /\ written[1] = <<1>>
    /\ grid # grid0

(* C23: in the guarded variants memcpy runs inside the critical section,   *)
(* from before its first row to after its last: the thread that copies     *)
(* holds the lock, no second thread is inside the section with it, and the *)
(* lock is held at no other time.                                          *)
C23_CopyInsideCritical ==
    variant \in GuardedVariants =>
        /\ Cardinality(lock) <= 1
        /\ pc = "copy" <=> lock = {MASTER}

C23_Witness ==
    /\ variant = "static" /\ nthreads = MaxThreads
    /\ CopyInFlight /\ lock = {MASTER}
    /\ grid # next_grid

(* The rows member t has written in this compute phase.                    *)
RowsOf(t) == {r \in DOMAIN written : \E k \in DOMAIN written[r] : written[r][k] = t}

Contiguous(rows) ==
    \A a \in rows, b \in rows : \A r \in a .. b : r \in rows

(* The member a row goes to when chunks of one row are dealt round-robin.  *)
DealtTo(r, nt) == r % nt

(* C24 as stated: in the static variants the member that writes a row is   *)
(* fixed by the row and the team size, and the rows of one member form a   *)
(* contiguous range.                                                       *)
C24_StaticRowsContiguous ==
    variant \in StaticVariants =>
        /\ \A t \in Team : \A r \in RowsOf(t) : t = DealtTo(r, nthreads)
        /\ \A t \in Team : Contiguous(RowsOf(t))

(* C24 amended: in the static variants the member that writes a row is     *)
(* fixed by the row and the team size, whatever the order of the steps:    *)
(* row r goes to member r modulo the team size, chunks of one row dealt    *)
(* round-robin, so that at the barrier member t has written the rows t,    *)
(* t + T, t + 2T, ... of a team of T, which are not contiguous when it has *)
(* more than one and T > 1.                                                *)
C24_StaticRowsRoundRobin ==
    variant \in StaticVariants =>
        /\ \A t \in Team : \A r \in RowsOf(t) : t = DealtTo(r, nthreads)
        /\ (pc = "compute" /\ TeamDone) =>
               \A t \in Team :
                   /\ RowsOf(t) = {r \in DOMAIN grid : DealtTo(r, nthreads) = t}
                   /\ (nthreads > 1 /\ Cardinality(RowsOf(t)) > 1) => ~Contiguous(RowsOf(t))

C24_Witness ==
    /\ variant = "static" /\ nthreads = 2
    /\ pc = "compute" /\ TeamDone
    /\ RowsOf(0) = {0, 2} /\ RowsOf(1) = {1}

(* A grid of dimension n whose cells all hold one of the two states.       *)
WellFormed(g, n) ==
    /\ DOMAIN g = Idx(n)
    /\ \A r \in Idx(n) :
           /\ DOMAIN g[r] = Idx(n)
           /\ \A c \in Idx(n) : g[r][c] \in {ALIVE, DEAD}

(* C25: in every state of every variant, the copy in flight or not, every  *)
(* cell of the grid holds ALIVE or DEAD and the grid is N x N, although    *)
(* the scratch grid was handed over uninitialised; once a generation has   *)
(* been published the same holds of the scratch grid.                      *)
C25_GridWellFormed ==
    pc \in {"loop", "compute", "critical", "copy", "done"} =>
        /\ WellFormed(grid, N)
        /\ DOMAIN next_grid = Idx(N)
        /\ cycles >= 1 => WellFormed(next_grid, N)

C25_Witness ==
    /\ variant = "guided_no_critical" /\ nthreads = MaxThreads
    /\ scratch0 = Filled(N, GARBAGE)
    /\ CopyInFlight /\ cycles = 0
    /\ grid # grid0
    /\ WellFormed(grid, N)

(* What the scratch grid of another execution may hold on entry.           *)
OtherScratches == Scratches \cup {Filled(N, DEAD), GridOf(N, {<<0, 0>>, <<1, 2>>})}

AtGenerationEnd == pc \in {"loop", "done"}

CopyAboutToStart == pc \in {"critical", "copy"} /\ cp = 0

(* C26: after every generation of every variant the grid is the grid the   *)
(* execution from the same initial grid reaches with any other contents of *)
(* the scratch grid on entry; and when the copy is about to start no cell  *)
(* of the scratch grid holds what it held on entry: each holds the next    *)
(* state of its cell of the grid.                                          *)
C26_GridIndependentOfScratch ==
    /\ AtGenerationEnd =>
           \A s \in OtherScratches : grid = simulate_serial(grid0, s, 0, cycles)[1]
    /\ CopyAboutToStart => next_grid = LifeStep(grid)

C26_Witness ==
    /\ AtGenerationEnd /\ cycles = 1
    /\ variant = "static_no_critical" /\ nthreads = MaxThreads
    /\ scratch0 = Filled(N, ALIVE)
    /\ grid # grid0 /\ grid # scratch0
    /\ grid = simulate_serial(grid0, Filled(N, GARBAGE), 0, 1)[1]

(* An update function is running.                                          *)
Updating == pc \in {"upd_compute", "upd_copy"}

InLoop ==
    pc \in {"lp_head", "count_call", "count_loop", "count_returned", "lp_render",
            "lp_update", "upd_compute", "upd_copy", "lp_exit"}

(* C27: whenever no update is running, the grid of the visual main loop is *)
(* the grid update_grid_serial alone would have produced from the grid as  *)
(* last initialised, in as many updates as were made since, whichever of   *)
(* update_grid_serial and update_grid_parallel made each of them, for      *)
(* every team size and every order of the steps of the two parallel loops  *)
(* of update_grid_parallel.                                                *)
C27_ParallelUpdateEqualsSerial ==
    (InLoop /\ ~Updating) => grid = simulate_serial(grid0, scratch0, 0, cycles)[1]

C27_Witness ==
    /\ pc = "lp_exit" /\ ~quit
    /\ nthreads = MaxThreads
    /\ parallel_generations >= 1 /\ serial_generations >= 1
    /\ reset_at = 0
    /\ grid # grid0 /\ grid # shown.grid

(* count_live_cells or render_grid is reading the grid.                    *)
Reading == pc \in {"count_loop", "count_returned", "lp_render"}

(* No member of an update team holds or can fetch a row, and none has      *)
(* written one.                                                            *)
NoUpdateAtWork ==
    /\ dispatch = 0
    /\ \A t \in Team : chunk[t] = <<0, 0>>
    /\ written = NoWrites(Dim(grid))

(* The team of count_live_cells has scanned every row and been combined.   *)
CountFinished == combined = Team /\ \A t \in Team : todo[t] = {}

ReadersApartFromUpdate ==
    /\ Reading =>
           /\ NoUpdateAtWork
           /\ grid = LifeIter(grid0, cycles)
    /\ Updating =>
           /\ CountFinished
           /\ ~RowLoopCond(Len(frame), Dim(grid))
    /\ pc \in {"lp_update", "upd_compute"} =>
           /\ shown.grid = grid
           /\ shown.grid = LifeIter(grid0, cycles)
           /\ shown.live = Cardinality(AliveCells(grid))

GridChangesOnlyInCopyOrReset ==
    grid' # grid => (pc = "upd_copy" \/ (pc = "lp_head" /\ reset_at' = generation))

(* C28: in the visual main loop, while count_live_cells or render_grid is  *)
(* reading the grid no member of an update team has work in hand and the   *)
(* grid is one whole generation; while an update runs the count and the    *)
(* drawing of the pass are complete; the frame put on the screen is the    *)
(* whole grid the update of the pass starts from, with its count; and the  *)
(* grid changes only in the copy loop of an update or by a reset in the    *)
(* event loop, never in a step of a reader.                                *)
C28_ReadersNeverOverlapUpdate ==
    /\ []ReadersApartFromUpdate
    /\ [][GridChangesOnlyInCopyOrReset]_vars

C28_Witness ==
    /\ pc = "lp_render" /\ Len(frame) = 1
    /\ generation = 2 /\ parallel_generations = 1
    /\ nthreads = MaxThreads
    /\ grid # grid0 /\ grid = LifeIter(grid0, 1)
    /\ NoUpdateAtWork

(* The frame of this pass is on the screen.                                *)
FramePresented == pc \in {"lp_update", "upd_compute", "upd_copy"}

(* The value of generation at the last initialisation of the grid: 1 at    *)
(* start-up, the value at the pass of the last R reset after one.          *)
InitialisedAt == IF reset_at = 0 THEN 1 ELSE reset_at

RanToTheEnd == pc = "lp_exit" /\ ~quit

(* C29 as stated: the frame on the screen while generation is g shows the  *)
(* grid after exactly g - 1 updates since the last initialisation.         *)
C29_FrameAfterGenMinusOne ==
    FramePresented =>
        /\ shown.gen = generation
        /\ cycles = generation - 1
        /\ shown.grid = LifeIter(grid0, generation - 1)

(* C29 amended: the frame on the screen while generation is g, and the     *)
(* count reported with it, were taken after g - 1 updates in all and show  *)
(* the grid as last initialised advanced by g - g0 generations, g0 being   *)
(* the value of generation at the last initialisation (1 at start-up, the  *)
(* value at the pass of the reset after an R reset); on a run that is not  *)
(* quit as many updates are made as the generation limit, and the last     *)
(* frame shown was taken before the last of them.                          *)
C29_FrameLagsByOne ==
    /\ FramePresented =>
           /\ shown.gen = generation
           /\ shown.updates = generation - 1
           /\ updates = generation - 1
           /\ cycles = generation - InitialisedAt
           /\ shown.grid = LifeIter(grid0, generation - InitialisedAt)
           /\ shown.live = Cardinality(AliveCells(shown.grid))
    /\ RanToTheEnd =>
           /\ updates = LoopIters
           /\ generation = LoopIters + 1
           /\ shown.gen = LoopIters
           /\ shown.updates = LoopIters - 1
           /\ grid = LifeStep(shown.grid)

C29_Witness ==
    /\ RanToTheEnd
    /\ reset_at = 0
    /\ shown.gen = LoopIters /\ shown.updates = LoopIters - 1
    /\ shown.grid = LifeIter(grid0, LoopIters - 1)
    /\ grid = LifeIter(grid0, LoopIters)
    /\ grid # shown.grid

(* A step of the event loop that handles an R key.                         *)
ResetStep ==
    /\ pc = "lp_head"
    /\ pc' = "count_call"
    /\ reset_at' = generation
    /\ reset_at # generation

ResetKeepsCounters ==
    ResetStep =>
        /\ grid' \in LoopRandomGrids(random_density)
        /\ grid0' = grid' /\ cycles' = 0
        /\ generation' = generation
        /\ updates' = updates
        /\ serial_generations' = serial_generations
        /\ parallel_generations' = parallel_generations

ResetPatternRunsShort ==
    /\ (RanToTheEnd /\ reset_at > 0) =>
           /\ cycles = LoopIters - reset_at + 1
           /\ grid = LifeIter(grid0, LoopIters - reset_at + 1)
    /\ RanToTheEnd => serial_generations + parallel_generations = LoopIters

(* C30: an R reset puts a fresh random pattern in the grid and leaves the  *)
(* generation counter and both generation tallies as they are, so on a run *)
(* that is not quit the pattern of a reset at counter value g has evolved  *)
(* for limit - g + 1 updates when the loop ends.                           *)
C30_ResetKeepsGenerationCounter ==
    /\ []ResetPatternRunsShort
    /\ [][ResetKeepsCounters]_vars

C30_Witness ==
    /\ RanToTheEnd
    /\ reset_at = LoopIters
    /\ cycles = 1
    /\ generation = LoopIters + 1
    /\ serial_generations + parallel_generations = LoopIters
    /\ grid = LifeStep(grid0)
    /\ grid # grid0

(* The mean of variant a against the mean of variant b, crosswise on a     *)
(* common denominator: negative, 0 or positive as a's mean is below,       *)
(* equal to or above b's.                                                  *)
MeanDifference(a, b) == times[a].num * times[b].den - times[b].num * times[a].den

(* What one line of the impact report has to say for the guarded variant   *)
(* with and its unguarded counterpart without.                             *)
ImpactLineRight(c, with, without) ==
    /\ c.line \in {"improved performance by", "degraded performance by"}
    /\ c.line = "improved performance by" <=> MeanDifference(without, with) < 0
    /\ c.line = "degraded performance by" <=> MeanDifference(without, with) >= 0
    /\ MeanDifference(without, with) = 0 => c.percent.num = 0
    /\ MeanDifference(without, with) < 0 =>
           c.percent.num * times[with].num * times[without].den
               = 100 * MeanDifference(with, without) * c.percent.den
    /\ MeanDifference(without, with) >= 0 =>
           c.percent.num * times[with].num * times[without].den
               = 100 * MeanDifference(without, with) * c.percent.den

(* C31: for each scheduling kind the impact report prints one of two       *)
(* lines: "improved" exactly when the mean without the critical section is *)
(* strictly below the mean with it, "degraded" in every other case, equal  *)
(* means included, where the percentage printed is 0; no line says the two *)
(* were equal.                                                             *)
C31_CriticalImpactTwoOutcomes ==
    \A c \in report.critical :
        /\ ImpactLineRight(c.static, "static", "static_no_critical")
        /\ ImpactLineRight(c.guided, "guided", "guided_no_critical")

C31_Witness ==
    /\ pc = "exit"
    /\ MeanDifference("static_no_critical", "static") = 0
    /\ MeanDifference("guided_no_critical", "guided") < 0
    /\ \E c \in report.critical :
           /\ c.static.line = "degraded performance by"
           /\ c.static.percent.num = 0
           /\ c.guided.line = "improved performance by"
           /\ c.guided.percent.num > 0

====
